---- MODULE Spec2Model ----
(***************************************************************************)
(* Approval/control protocol of the interactive browser agent.             *)
(*                                                                         *)
(* The model follows src/src/browser_agent/agent.py (BrowserAgent: the     *)
(* approval gate, the multi_act interceptor, start/stop) and               *)
(* src/src/browser_agent/web/routes.py (the task registry active_tasks,    *)
(* the background run _run_agent_task and the control endpoints).          *)
(*                                                                         *)
(* Everything runs on one asyncio event loop, so code between two awaits   *)
(* that really suspend is one atomic action.  The suspension points of a   *)
(* task's run are: the engine's own work between steps, the                *)
(* get_current_page() call of on_step_start, the model call of             *)
(* wrapped_get_next_action, the get_current_page() call of                 *)
(* on_action_start, the gate wait, and each call of the original           *)
(* multi_act.  The execution engine (browser_use Agent) is an external     *)
(* collaborator: what it proposes, what it has recorded in its history,    *)
(* what the primitive returns and whether it absorbs an exception are      *)
(* chosen nondeterministically.                                            *)
(***************************************************************************)
EXTENDS Naturals, Integers, Sequences, FiniteSets, TLC

\* ------------------------------------------------------------------ bounds
\* Largest batch the engine proposes in one step.
MaxBatch == 3
\* Number of engine steps (get_next_action + multi_act) of one run.
MaxSteps == 2
\* Number of user_action events (successful approve/reject/resume calls)
\* the event log of a task may hold.
MaxUserEvents == 3
\* Plan snapshots one run's planner produces.
MaxPlans == 2
\* Direct calls of BrowserAgent._handle_event on one object.
MaxHandled == 3

\* Longest plan text, in tokens, handed to _parse_planner_text.
MaxTextLen == 5

\* Task identifiers the registry may hold (uuid4 strings in the code).
TaskIds == {"t1", "t2"}
\* Identifiers driven by the single-task specification.
SoloIds == {"t1"}

Terminal == {"stopped", "completed", "failed"}
Statuses == {"created", "running", "paused"} \cup Terminal
\* Order of the statuses along created -> running -> paused -> terminal.
Rank(s) == CASE s = "none" -> 0
             [] s = "created" -> 1
             [] s = "running" -> 2
             [] s = "paused" -> 2
             [] OTHER -> 3

\* What one call of the original multi_act([action]) can do:
\*   ok    a one-element result list, neither done nor error
\*   done  a result with is_done
\*   error a result with error
\*   empty an empty result list
\*   raise an exception
Outcomes == {"ok", "done", "error", "empty", "raise"}

NoAction == [index |-> 0, total |-> 0, step_number |-> 0, next_goal |-> 0]
\* BrowserAgent.current_step_data before the first on_step_start: {} (-1
\* stands for the missing key step_number).
NoStepData == [step_number |-> -1]
\* How a run ended: "startup" (start() failed before the engine ran),
\* "returned", "raised" (an exception left agent.run()), "timeout".
NotEnded == [how |-> "none", msg |-> ""]
NoResp == [op |-> "none", task |-> "none", code |-> 0, success |-> FALSE,
           status |-> "none", message |-> "", pending |-> FALSE,
           action |-> NoAction, events |-> <<>>,
           has_thoughts |-> FALSE, latest |-> "None", all_thoughts |-> <<>>,
           updated_since_last_fetch |-> "absent"]

\* ---------------------------------------------------------------- web/app.py
\* Largest len(active_tasks) at which POST /tasks of app.py is called.
MaxAppTasks == 2
\* str(n) for the lengths that occur.
Digits == <<"0", "1", "2", "3", "4", "5", "6", "7", "8", "9">>
Str(n) == Digits[n + 1]
\* Ids of app.create_task, str(len(active_tasks)).
RestIds == {Str(n) : n \in 0..(MaxAppTasks - 1)}
\* Ids of the websocket's start_task, str(uuid.uuid4()), and connection ids.
Uuids == {"u1", "u2"}
ConnIds == {"c1", "c2"}
AppIds == RestIds \cup Uuids
\* A value of app.active_tasks: POST /tasks stores the BrowserAgent itself
\* (kind "agent"), start_task stores a dict holding it (kind "dict").
\* agent is BrowserAgent.agent.
NoEntry == [kind |-> "absent", description |-> "None",
            connection_id |-> "None", agent |-> "None"]

\* ------------------------------------------------------------- credentials
CredentialVars == {"OPENAI_API_KEY", "AZURE_ENDPOINT", "AZURE_OPENAI_API_KEY"}
\* A variable is absent ("unset"), set to the empty string or to a value.
EnvValues == {"unset", "", "v"}
Environs == [CredentialVars -> EnvValues]
NotRead == [v \in CredentialVars |-> "not read"]

\* ---------------------------------------------------------------- plan text
\* _parse_planner_text's dict before anything was parsed into it.
NoPlan == [state_analysis |-> "", progress_evaluation |-> "",
           challenges |-> "", next_steps |-> <<>>, reasoning |-> "",
           parsed |-> FALSE]

VARIABLES
  active_tasks,            \* routes.active_tasks: the ids in the registry
  status,                  \* task_state["status"]
  events,                  \* task_state["events"]
  agent,                   \* BrowserAgent.agent: "None" or "Agent"
  current_agent,           \* BrowserAgent.current_agent: "unset", "None", "Agent"
  pending_approval,        \* BrowserAgent.pending_approval
  approved,                \* BrowserAgent.approved
  rejected,                \* BrowserAgent.rejected
  action_approval_event,   \* BrowserAgent.action_approval_event.is_set()
  current_actions,         \* BrowserAgent.current_actions (the PendingAction)
  current_batch_next_goal, \* BrowserAgent.current_batch_next_goal (0 = None)
  current_model_output,    \* BrowserAgent.current_model_output (0 = None)
  current_step_data,       \* BrowserAgent.current_step_data: its step_number
  engine_paused,           \* the engine's pause flag (Agent.pause/resume)
  pc,                      \* where the task's background run stands
  n_steps,                 \* engine steps begun in this run
  actions,                 \* size of the batch handed to wrapped_multi_act
  idx,                     \* loop index i of wrapped_multi_act
  results,                 \* the local list results of wrapped_multi_act
  executed,                \* history: indices given to original_multi_act, this batch
  outcomes,                \* history: what original_multi_act did for each of them
  returned,                \* history: <<>> until wrapped_multi_act returns for
                           \*          this batch, then <<the list it returned>>
  published,               \* history: PendingActions published for this batch
  released,                \* history: the decision flags as they stood when the
                           \*          gate waiter woke up ("none" before that)
  decisions,               \* history: approve/reject calls that succeeded for
                           \*          the current PendingAction
  stopped_in_flight,       \* history: a stop call has answered "stopped" while
                           \*          the background run was in flight
  ended,                   \* history: how agent.start() was left ("none" while
                           \*          it has not been) and str(e) of the exception
  planner_thoughts,        \* BrowserAgent.planner_thoughts (the plan log)
  latest_plan,             \* BrowserAgent.latest_plan ("None" or a plan)
  planner_updated,         \* BrowserAgent.planner_updated
  description,             \* BrowserAgent.task, task_state["description"]
                           \* ("None" while no BrowserAgent exists)
  on_event,                \* BrowserAgent.on_event: "unbuilt" while no
                           \* BrowserAgent exists, then the kind of callback
                           \* given: "none", "sync" (a plain function that
                           \* appends to events) or "async" (a coroutine
                           \* function that would)
  calls,                   \* history: the constructor call, and the calls of
                           \* _handle_event made by a direct caller or by the
                           \* planner hook, with their arguments
  app_active_tasks,        \* app.active_tasks: the registry of web/app.py, a
                           \* dict other than routes.active_tasks
  websocket,               \* each connection of app.websocket_endpoint: its
                           \* handler's position (the task id while it awaits
                           \* send_json(task_started) for it), which fixes
                           \* whether its id is a key of app.active_connections
  app_run,                 \* where the run_task of each websocket task stands,
                           \* and whether a POST /tasks/{id}/start request is
                           \* pending inside agent.start()
  environ,                 \* os.environ: the three credential variables
  dotenv,                  \* the .env file load_dotenv() finds: what it gives
                           \* the three variables ("unset": no such line, or
                           \* no file)
  llm,                     \* the model client BrowserAgent.start selected
  text,                    \* the plan the planner hook was last handed, as
                           \* tokens
  structured_plan,         \* what _parse_planner_text returned for it
                           \* (NoPlan when the hook did not parse)
  resp                     \* the response of the call this step made (NoResp
                           \* when the step was not a call of the control surface)

agentVars == <<agent, current_agent, pending_approval, approved, rejected,
               action_approval_event, current_actions,
               current_batch_next_goal, current_model_output,
               current_step_data>>
runVars == <<engine_paused, pc, n_steps, actions, idx, results>>
histVars == <<executed, outcomes, returned, published, released, decisions>>
plannerVars == <<planner_thoughts, latest_plan, planner_updated>>
ctorVars == <<description, on_event, calls>>
appVars == <<app_active_tasks, websocket, app_run>>
envVars == <<environ, dotenv, llm>>
parseVars == <<text, structured_plan>>
\* What the endpoints of routes.py and the steps of a run never touch.
sideVars == <<appVars, envVars, parseVars>>
\* What app.py and the credential checks never touch.
registryVars == <<active_tasks, status, events, agentVars, runVars, histVars,
                  stopped_in_flight, ended, plannerVars, ctorVars>>
vars == <<active_tasks, status, events, agentVars, runVars, histVars,
          stopped_in_flight, ended, plannerVars, ctorVars, sideVars, resp>>

\* ------------------------------------------------------------------ Init
\* The registry is empty; no BrowserAgent exists yet.
InitRegistry ==
  /\ active_tasks = {}
  /\ status = [t \in TaskIds |-> "none"]
  /\ events = [t \in TaskIds |-> <<>>]
  /\ agent = [t \in TaskIds |-> "None"]
  /\ current_agent = [t \in TaskIds |-> "unset"]
  /\ pending_approval = [t \in TaskIds |-> FALSE]
  /\ approved = [t \in TaskIds |-> FALSE]
  /\ rejected = [t \in TaskIds |-> FALSE]
  /\ action_approval_event = [t \in TaskIds |-> FALSE]
  /\ current_actions = [t \in TaskIds |-> NoAction]
  /\ current_batch_next_goal = [t \in TaskIds |-> 0]
  /\ current_model_output = [t \in TaskIds |-> 0]
  /\ current_step_data = [t \in TaskIds |-> NoStepData]
  /\ engine_paused = [t \in TaskIds |-> FALSE]
  /\ pc = [t \in TaskIds |-> "absent"]
  /\ n_steps = [t \in TaskIds |-> 0]
  /\ actions = [t \in TaskIds |-> 0]
  /\ idx = [t \in TaskIds |-> 0]
  /\ results = [t \in TaskIds |-> <<>>]
  /\ executed = [t \in TaskIds |-> <<>>]
  /\ outcomes = [t \in TaskIds |-> <<>>]
  /\ returned = [t \in TaskIds |-> <<>>]
  /\ published = [t \in TaskIds |-> 0]
  /\ released = [t \in TaskIds |-> "none"]
  /\ decisions = [t \in TaskIds |-> <<>>]
  /\ stopped_in_flight = [t \in TaskIds |-> FALSE]
  /\ ended = [t \in TaskIds |-> NotEnded]
  /\ planner_thoughts = [t \in TaskIds |-> <<>>]
  /\ latest_plan = [t \in TaskIds |-> "None"]
  /\ planner_updated = [t \in TaskIds |-> FALSE]
  /\ description = [t \in TaskIds |-> "None"]
  /\ on_event = [t \in TaskIds |-> "unbuilt"]
  /\ calls = [t \in TaskIds |-> <<>>]
  /\ resp = NoResp

\* app.py at import: both of its dicts are empty, nothing is awaited.
InitApp ==
  /\ app_active_tasks = [i \in AppIds |-> NoEntry]
  /\ websocket = [c \in ConnIds |-> "unused"]
  /\ app_run = [i \in AppIds |-> "none"]

\* The specifications of the registry, of the agent and of app.py read no
\* credential variable (whether start() finds credentials is the parameter
\* startup of BackgroundStart); no plan was handed to the planner hook.
Init ==
  /\ InitRegistry
  /\ InitApp
  /\ environ = NotRead /\ dotenv = NotRead /\ llm = "unset"
  /\ text = <<>> /\ structured_plan = NoPlan

\* ----------------------------------------------------------- construction
\* The descriptions given to BrowserAgent(...), and the one create_task gets.
Descriptions == {"d1", "d2"}
RequestDescriptions == {"d1"}
Callbacks == {"none", "sync", "async"}

\* A constructor that stores no description.
__init__without_task(t, d, cb) ==
  /\ description' = [description EXCEPT ![t] = ""]
  /\ on_event' = [on_event EXCEPT ![t] = cb]
  /\ calls' = [calls EXCEPT ![t] = <<[op |-> "__init__", arg |-> d]>>]

\* BrowserAgent.__init__(task, on_event): the fields of the new object other
\* than task and on_event have the values of Init.
__init__(t, d, cb) ==
  /\ description' = [description EXCEPT ![t] = d]
  /\ on_event' = [on_event EXCEPT ![t] = cb]
  /\ calls' = [calls EXCEPT ![t] = <<[op |-> "__init__", arg |-> d]>>]

\* ------------------------------------------------------- responses, events
Event(type, message) == [type |-> type, message |-> message]

\* A callback that appends to a list shared by all tasks.
LogEventShared(t, ev) == [b \in TaskIds |-> Append(events[b], ev)]

\* routes._handle_event: append the event to the task's list.
LogEvent(t, ev) == [events EXCEPT ![t] = Append(@, ev)]

\* A handler that answers an unknown id as if all were well.
NotFoundAnsweredOk(op, t) == [NoResp EXCEPT !.op = op, !.task = t, !.code = 200]

\* HTTPException(404, "Task not found")
NotFound(op, t) == [NoResp EXCEPT !.op = op, !.task = t, !.code = 404,
                                  !.message = "Task not found"]
\* ApprovalResponse(success, message)
ApprovalResponse(op, t, ok, msg) ==
  [NoResp EXCEPT !.op = op, !.task = t, !.code = 200, !.success = ok,
                 !.message = msg]
\* TaskInfo(task_id, description, status, message)
TaskInfo(op, t, code, st, msg) ==
  [NoResp EXCEPT !.op = op, !.task = t, !.code = code, !.status = st,
                 !.message = msg]

UserEvents(t) == Cardinality({i \in 1..Len(events[t]) :
                                 events[t][i].type = "user_action"})
\* The log has room for one more user_action event (bound of the model).
RoomForUserEvent(t) == UserEvents(t) < MaxUserEvents

\* A _handle_event that calls the callback twice.
_handle_event_twice(t, ev) ==
  IF on_event[t] = "sync" THEN Append(Append(events[t], ev), ev) ELSE events[t]

\* BrowserAgent._handle_event -> self.on_event(event), seen from the list
\* the callback appends to.  A plain function runs and appends.  Calling an
\* `async def` without await builds a coroutine object that never runs, so
\* nothing is appended; without a callback on_event is a no-op lambda.
_handle_event(t, ev) ==
  IF on_event[t] = "sync" THEN Append(events[t], ev) ELSE events[t]

\* An event emitted by the agent of a task.  For a task of the registry
\* on_event is routes.create_task.on_event_wrapper, an `async def`.
AgentEmit(t, ev) == _handle_event(t, ev)

\* ------------------------------------------------------- the approval gate
\* Mutant of CanDecide: the guard on pending_approval is missing.
CanDecideAlways(t) == TRUE

\* approve_action / reject_action: `if not self.pending_approval: return False`
CanDecide(t) == pending_approval[t]

\* Mutant of Decidable: a paused task is accepted too.
DecidableWhenPaused(t) == status[t] \in {"running", "paused"}

\* The endpoints' status check: `task_state["status"] not in ["running"]`
Decidable(t) == status[t] \in {"running"}

\* BrowserAgent.approve_action, past its guard.
approve_action(t) ==
  /\ approved' = [approved EXCEPT ![t] = TRUE]
  /\ rejected' = [rejected EXCEPT ![t] = FALSE]
  /\ action_approval_event' = [action_approval_event EXCEPT ![t] = TRUE]

\* BrowserAgent.reject_action, past its guard.
reject_action(t) ==
  /\ approved' = [approved EXCEPT ![t] = FALSE]
  /\ rejected' = [rejected EXCEPT ![t] = TRUE]
  /\ action_approval_event' = [action_approval_event EXCEPT ![t] = TRUE]

\* Mutant of get_current_step: the stored action is returned unguarded.
get_current_step_unguarded(t) == current_actions[t]

\* BrowserAgent.get_current_step: None (NoAction) unless pending_approval.
get_current_step(t) ==
  IF ~pending_approval[t] THEN NoAction ELSE current_actions[t]

\* --------------------------------------------------------------- registry
\* A create_task that stores the entry but forgets background_tasks.add_task.
CreateTaskUnscheduled(t) ==
  /\ t \notin active_tasks
  /\ active_tasks' = active_tasks \cup {t}
  /\ status' = [status EXCEPT ![t] = "created"]
  /\ events' = [events EXCEPT ![t] = <<>>]
  /\ pc' = pc
  /\ resp' = [NoResp EXCEPT !.op = "create", !.task = t, !.code = 201,
                            !.status = "created",
                            !.message = "Task created and initiated successfully."]
  /\ planner_thoughts' = [planner_thoughts EXCEPT ![t] = <<>>]
  /\ latest_plan' = [latest_plan EXCEPT ![t] = "None"]
  /\ planner_updated' = [planner_updated EXCEPT ![t] = FALSE]
  /\ \E d \in RequestDescriptions : __init__(t, d, "async")
  /\ UNCHANGED <<sideVars, agentVars, engine_paused, n_steps, actions, idx, results,
                 histVars, stopped_in_flight, ended>>

\* POST /tasks: a BrowserAgent is constructed, the entry is stored with
\* status "created" and the background run is scheduled.
CreateTask(t) ==
  /\ t \notin active_tasks
  /\ active_tasks' = active_tasks \cup {t}
  /\ status' = [status EXCEPT ![t] = "created"]
  /\ events' = [events EXCEPT ![t] = <<>>]
  /\ pc' = [pc EXCEPT ![t] = "scheduled"]
  /\ resp' = [NoResp EXCEPT !.op = "create", !.task = t, !.code = 201,
                            !.status = "created",
                            !.message = "Task created and initiated successfully."]
  /\ planner_thoughts' = [planner_thoughts EXCEPT ![t] = <<>>]
  /\ latest_plan' = [latest_plan EXCEPT ![t] = "None"]
  /\ planner_updated' = [planner_updated EXCEPT ![t] = FALSE]
  /\ \E d \in RequestDescriptions : __init__(t, d, "async")
  /\ UNCHANGED <<sideVars, agentVars, engine_paused, n_steps, actions, idx, results,
                 histVars, stopped_in_flight, ended>>

\* GET /tasks/{id}
GetStatus(t) ==
  /\ resp' = IF t \notin active_tasks THEN NotFound("get_status", t)
             ELSE [NoResp EXCEPT !.op = "get_status", !.task = t, !.code = 200,
                                 !.status = status[t], !.events = events[t]]
  /\ UNCHANGED <<plannerVars, ctorVars, sideVars, active_tasks, status, events, agentVars, runVars, histVars,
                 stopped_in_flight, ended>>

\* GET /tasks/{id}/status
GetStatusOnly(t) ==
  /\ resp' = IF t \notin active_tasks THEN NotFound("get_status_only", t)
             ELSE [NoResp EXCEPT !.op = "get_status_only", !.task = t,
                                 !.code = 200, !.status = status[t]]
  /\ UNCHANGED <<plannerVars, ctorVars, sideVars, active_tasks, status, events,
                 agentVars, runVars, histVars, stopped_in_flight, ended>>

\* GET /tasks/{id}/step: of the pending action's data the response carries
\* url, action, thought and step_number, not index, total or next_goal.
GetStep(t) ==
  /\ resp' = IF t \notin active_tasks THEN NotFound("get_step", t)
             ELSE [NoResp EXCEPT !.op = "get_step", !.task = t, !.code = 200,
                                 !.pending = (get_current_step(t) # NoAction),
                                 !.action = [NoAction EXCEPT !.step_number =
                                               get_current_step(t).step_number]]
  /\ UNCHANGED <<plannerVars, ctorVars, sideVars, active_tasks, status, events,
                 agentVars, runVars, histVars, stopped_in_flight, ended>>

\* GET /tasks/{id}/action
GetAction(t) ==
  /\ resp' = IF t \notin active_tasks THEN NotFound("get_action", t)
             ELSE [NoResp EXCEPT !.op = "get_action", !.task = t, !.code = 200,
                                 !.pending = (get_current_step(t) # NoAction),
                                 !.action = get_current_step(t)]
  /\ UNCHANGED <<plannerVars, ctorVars, sideVars, active_tasks, status, events, agentVars, runVars, histVars,
                 stopped_in_flight, ended>>

\* POST /tasks/{id}/approve (kind "step") and /approve-action (kind "action")
Approve(t, kind) ==
  LET op == "approve" IN
  IF t \notin active_tasks THEN
    /\ resp' = NotFound(op, t)
    /\ UNCHANGED <<plannerVars, ctorVars, sideVars, active_tasks, status, events, agentVars, runVars, histVars,
                   stopped_in_flight, ended>>
  ELSE IF ~Decidable(t) THEN
    /\ resp' = ApprovalResponse(op, t, FALSE,
                 "Task is in '" \o status[t] \o "' state and cannot be approved")
    /\ UNCHANGED <<plannerVars, ctorVars, sideVars, active_tasks, status, events, agentVars, runVars, histVars,
                   stopped_in_flight, ended>>
  ELSE IF CanDecide(t) THEN
    /\ RoomForUserEvent(t)
    /\ approve_action(t)
    /\ events' = LogEvent(t, Event("user_action", "User approved the " \o kind))
    /\ decisions' = [decisions EXCEPT ![t] = Append(@, "approved")]
    /\ resp' = ApprovalResponse(op, t, TRUE,
                 IF kind = "step" THEN "Step approved successfully"
                                  ELSE "Action approved successfully")
    /\ UNCHANGED <<plannerVars, ctorVars, sideVars, current_step_data, active_tasks, status, agent, current_agent, pending_approval,
                   current_actions, current_batch_next_goal,
                   current_model_output, runVars, executed, outcomes, returned,
                   published, released, stopped_in_flight, ended>>
  ELSE
    /\ resp' = ApprovalResponse(op, t, FALSE,
                                "No " \o kind \o " is pending approval")
    /\ UNCHANGED <<plannerVars, ctorVars, sideVars, active_tasks, status, events, agentVars, runVars, histVars,
                   stopped_in_flight, ended>>

\* POST /tasks/{id}/reject (kind "step") and /reject-action (kind "action")
Reject(t, kind) ==
  LET op == "reject" IN
  IF t \notin active_tasks THEN
    /\ resp' = NotFound(op, t)
    /\ UNCHANGED <<plannerVars, ctorVars, sideVars, active_tasks, status, events, agentVars, runVars, histVars,
                   stopped_in_flight, ended>>
  ELSE IF ~Decidable(t) THEN
    /\ resp' = ApprovalResponse(op, t, FALSE,
                 "Task is in '" \o status[t] \o "' state and cannot be rejected")
    /\ UNCHANGED <<plannerVars, ctorVars, sideVars, active_tasks, status, events, agentVars, runVars, histVars,
                   stopped_in_flight, ended>>
  ELSE IF CanDecide(t) THEN
    /\ RoomForUserEvent(t)
    /\ reject_action(t)
    /\ status' = [status EXCEPT ![t] = "paused"]
    /\ events' = LogEvent(t, Event("user_action",
                   "User rejected the " \o kind \o ", agent paused"))
    /\ decisions' = [decisions EXCEPT ![t] = Append(@, "rejected")]
    /\ resp' = ApprovalResponse(op, t, TRUE,
                 IF kind = "step" THEN "Step rejected, agent paused"
                                  ELSE "Action rejected, agent paused")
    /\ UNCHANGED <<plannerVars, ctorVars, sideVars, current_step_data, active_tasks, agent, current_agent, pending_approval,
                   current_actions, current_batch_next_goal,
                   current_model_output, runVars, executed, outcomes, returned,
                   published, released, stopped_in_flight, ended>>
  ELSE
    /\ resp' = ApprovalResponse(op, t, FALSE,
                                "No " \o kind \o " is pending approval")
    /\ UNCHANGED <<plannerVars, ctorVars, sideVars, active_tasks, status, events, agentVars, runVars, histVars,
                   stopped_in_flight, ended>>

\* The run is suspended somewhere inside agent.run().
\* A timeout that would bound the engine's own work but not the gate wait.
InFlightOutsideGate(t) ==
  pc[t] \in {"engine", "step_hook", "model", "hook", "exec"}

\* The run is inside `async with asyncio.timeout(60): await self.agent.run()`.
InFlight(t) ==
  pc[t] \in {"engine", "step_hook", "model", "hook", "gate", "exec"}

\* A stop_task that also treats a paused task as inactive.
InactiveOrPaused(t) == status[t] \in Terminal \cup {"paused"}

\* stop_task's check `task_state["status"] in ["stopped", "completed", "failed"]`
Inactive(t) == status[t] \in Terminal

\* BrowserAgent.stop: drop the engine and the browser reference.  The run
\* that is awaiting agent.run() is not cancelled.
stop(t) == [agent EXCEPT ![t] = "None"]

\* POST /tasks/{id}/stop
StopTask(t) ==
  LET op == "stop" IN
  IF t \notin active_tasks THEN
    /\ resp' = NotFound(op, t)
    /\ UNCHANGED <<plannerVars, ctorVars, sideVars, active_tasks, status, events, agentVars, runVars, histVars,
                   stopped_in_flight, ended>>
  ELSE IF Inactive(t) THEN
    /\ resp' = TaskInfo(op, t, 200, status[t], "Task was already inactive.")
    /\ UNCHANGED <<plannerVars, ctorVars, sideVars, active_tasks, status, events, agentVars, runVars, histVars,
                   stopped_in_flight, ended>>
  ELSE
    /\ agent' = stop(t)
    /\ status' = [status EXCEPT ![t] = "stopped"]
    /\ events' = LogEvent(t, Event("info", "Task stopped by user request."))
    /\ stopped_in_flight' = [stopped_in_flight EXCEPT ![t] = @ \/ InFlight(t)]
    /\ resp' = TaskInfo(op, t, 200, "stopped", "Task stopped successfully.")
    /\ UNCHANGED <<plannerVars, ctorVars, sideVars, current_step_data, active_tasks, current_agent, pending_approval, approved,
                   rejected, action_approval_event, current_actions,
                   current_batch_next_goal, current_model_output, runVars,
                   histVars, ended>>

\* A resume that is also accepted while the task is running.
ResumableOrRunning(t) == status[t] \in {"paused", "running"}

\* resume_task's check `task_state["status"] != "paused"`
Resumable(t) == status[t] = "paused"

\* POST /tasks/{id}/resume
ResumeTask(t) ==
  LET op == "resume" IN
  IF t \notin active_tasks THEN
    /\ resp' = NotFound(op, t)
    /\ UNCHANGED <<plannerVars, ctorVars, sideVars, active_tasks, status, events, agentVars, runVars, histVars,
                   stopped_in_flight, ended>>
  ELSE IF ~Resumable(t) THEN
    /\ resp' = TaskInfo(op, t, 200, status[t],
                 "Task is in '" \o status[t] \o "' state and cannot be resumed")
    /\ UNCHANGED <<plannerVars, ctorVars, sideVars, active_tasks, status, events, agentVars, runVars, histVars,
                   stopped_in_flight, ended>>
  ELSE IF agent[t] = "Agent" THEN
    /\ RoomForUserEvent(t)
    /\ engine_paused' = [engine_paused EXCEPT ![t] = FALSE]
    /\ status' = [status EXCEPT ![t] = "running"]
    /\ events' = LogEvent(t, Event("user_action", "User resumed the task"))
    /\ resp' = TaskInfo(op, t, 200, "running", "Task resumed successfully")
    /\ UNCHANGED <<plannerVars, ctorVars, sideVars, active_tasks, agentVars, pc, n_steps, actions, idx, results,
                   histVars, stopped_in_flight, ended>>
  ELSE
    \* HTTPException(400) raised inside the try is caught by
    \* `except Exception` and re-raised as HTTPException(500).
    /\ resp' = TaskInfo(op, t, 500, "none",
                 "Failed to resume task: 400: Cannot resume task, agent not initialized")
    /\ UNCHANGED <<plannerVars, ctorVars, sideVars, active_tasks, status, events, agentVars, runVars, histVars,
                   stopped_in_flight, ended>>

\* ------------------------------------------------------ the background run
\* An exception leaves agent.start(): its `finally` runs BrowserAgent.stop,
\* then _run_agent_task's `except Exception` sets "failed" and logs
\* "Task execution failed: " + str(e).
\* An except branch that sets "failed" but records no event.
RunFailsUnlogged(t, msg) ==
  /\ agent' = stop(t)
  /\ status' = [status EXCEPT ![t] = "failed"]
  /\ events' = events
  /\ pc' = [pc EXCEPT ![t] = "finished"]

Ends(t, how, msg) == ended' = [ended EXCEPT ![t] = [how |-> how, msg |-> msg]]

RunFails(t, msg) ==
  /\ agent' = stop(t)
  /\ status' = [status EXCEPT ![t] = "failed"]
  /\ events' = LogEvent(t, Event("error", "Task execution failed: " \o msg))
  /\ pc' = [pc EXCEPT ![t] = "finished"]

\* _run_agent_task up to the first suspension inside agent.start():
\* status := "running", the model client is selected, the browser handle is
\* fetched and the engine is built and patched.
BackgroundStart(t, startup) ==
  /\ pc[t] = "scheduled"
  /\ t \in active_tasks
  /\ IF startup = "ok"
       THEN /\ status' = [status EXCEPT ![t] = "running"]
            /\ agent' = [agent EXCEPT ![t] = "Agent"]
            /\ pc' = [pc EXCEPT ![t] = "engine"]
            /\ events' = events
            /\ ended' = ended
       ELSE LET msg == IF startup = "no_credentials"
                         THEN "Either OPENAI_API_KEY or (AZURE_ENDPOINT and AZURE_OPENAI_API_KEY) environment variables are required"
                         ELSE "Failed to create browser instance"
            IN RunFails(t, msg) /\ Ends(t, "startup", msg)
  /\ resp' = NoResp
  /\ UNCHANGED <<plannerVars, ctorVars, sideVars, current_step_data, active_tasks, current_agent, pending_approval, approved,
                 rejected, action_approval_event, current_actions,
                 current_batch_next_goal, current_model_output, engine_paused,
                 n_steps, actions, idx, results, histVars, stopped_in_flight>>

\* The engine begins a step (only while it is not paused) and calls the
\* on_step_start hook, which stores the engine it is given and awaits
\* agent.browser_context.get_current_page().
OnStepStart(t) ==
  /\ pc[t] = "engine"
  /\ ~engine_paused[t]
  /\ n_steps[t] < MaxSteps
  /\ n_steps' = [n_steps EXCEPT ![t] = @ + 1]
  /\ current_agent' = [current_agent EXCEPT ![t] = "Agent"]
  /\ pc' = [pc EXCEPT ![t] = "step_hook"]
  /\ resp' = NoResp
  /\ UNCHANGED <<plannerVars, ctorVars, sideVars, active_tasks, status, events,
                 agent, pending_approval, approved, rejected,
                 action_approval_event, current_actions,
                 current_batch_next_goal, current_model_output,
                 current_step_data, engine_paused, actions, idx, results,
                 histVars, stopped_in_flight, ended>>

\* len(agent.state.history.model_actions()) as on_step_start last read it:
\* the history of a new engine is empty.
HistoryLen(t) ==
  IF current_step_data[t] = NoStepData THEN 0
  ELSE current_step_data[t].step_number

\* on_step_start from the return of get_current_page() on: current_step_data
\* is stored with step_number = len(agent.state.history.model_actions()),
\* step_started is emitted; the engine goes on to wrapped_get_next_action,
\* which awaits original_get_next_action().  recorded: whether the engine
\* has entered the actions of the step before into its history.
StepStarted(t, recorded) ==
  /\ pc[t] = "step_hook"
  /\ current_step_data' = [current_step_data EXCEPT ![t] =
        [step_number |-> HistoryLen(t) + IF recorded THEN actions[t] ELSE 0]]
  /\ events' = [events EXCEPT ![t] =
        AgentEmit(t, Event("step_started", "Starting a new step"))]
  /\ pc' = [pc EXCEPT ![t] = "model"]
  /\ resp' = NoResp
  /\ UNCHANGED <<plannerVars, ctorVars, sideVars, active_tasks, status, agent,
                 current_agent, pending_approval, approved, rejected,
                 action_approval_event, current_actions,
                 current_batch_next_goal, current_model_output, engine_paused, n_steps, actions, idx, results,
                 histVars, stopped_in_flight, ended>>

\* original_get_next_action() returns a model output of n actions:
\* store_model_output keeps it and its next_goal, then the engine enters
\* wrapped_multi_act with the batch.  With n = 0 it returns [] at once; with
\* n > 0 it sets current_agent := self.agent and on_action_start awaits
\* current_agent.browser_context.get_current_page(), which raises
\* AttributeError when stop() has set self.agent to None.  absorb: whether
\* the engine swallows that exception or lets it leave run().
GetNextActionReturns(t, n, absorb) ==
  /\ pc[t] = "model"
  /\ actions' = [actions EXCEPT ![t] = n]
  /\ idx' = [idx EXCEPT ![t] = 0]
  /\ results' = [results EXCEPT ![t] = <<>>]
  /\ executed' = [executed EXCEPT ![t] = <<>>]
  /\ outcomes' = [outcomes EXCEPT ![t] = <<>>]
  /\ published' = [published EXCEPT ![t] = 0]
  /\ released' = [released EXCEPT ![t] = "none"]
  /\ returned' = [returned EXCEPT ![t] = IF n = 0 THEN << <<>> >> ELSE <<>>]
  /\ IF n = 0 THEN
       /\ current_batch_next_goal' = [current_batch_next_goal EXCEPT ![t] = 0]
       /\ current_model_output' = [current_model_output EXCEPT ![t] = 0]
       /\ pc' = [pc EXCEPT ![t] = "engine"]
       /\ UNCHANGED <<current_agent, agent, status, events, ended>>
     ELSE
       /\ current_agent' = [current_agent EXCEPT ![t] = agent[t]]
       /\ current_batch_next_goal' = [current_batch_next_goal EXCEPT ![t] = n_steps[t]]
       /\ current_model_output' = [current_model_output EXCEPT ![t] = n_steps[t]]
       /\ IF agent[t] = "Agent" THEN
            /\ pc' = [pc EXCEPT ![t] = "hook"]
            /\ UNCHANGED <<agent, status, events, ended>>
          ELSE IF absorb THEN
            /\ pc' = [pc EXCEPT ![t] = "engine"]
            /\ UNCHANGED <<agent, status, events, ended>>
          ELSE LET msg == "'NoneType' object has no attribute 'browser_context'"
               IN RunFails(t, msg) /\ Ends(t, "raised", msg)
  /\ resp' = NoResp
  /\ UNCHANGED <<plannerVars, ctorVars, sideVars, active_tasks, pending_approval,
                 approved, rejected, action_approval_event, current_actions,
                 current_step_data, engine_paused, n_steps, decisions,
                 stopped_in_flight>>

\* An on_action_start that does not clear the event before waiting on it.
clear_skipped(t) == action_approval_event

\* self.action_approval_event.clear()
clear(t) == [action_approval_event EXCEPT ![t] = FALSE]

\* on_action_start from the return of get_current_page() to the gate wait:
\* the PendingAction is published, action_approval_needed is emitted, the
\* event is cleared and both decision flags are reset.
Publish(t) ==
  /\ pc[t] = "hook"
  /\ pending_approval' = [pending_approval EXCEPT ![t] = TRUE]
  /\ current_actions' = [current_actions EXCEPT ![t] =
         [index |-> 0 + 1, total |-> actions[t],
          step_number |-> current_step_data[t].step_number,
          next_goal |-> current_batch_next_goal[t]]]
  /\ events' = [events EXCEPT ![t] = AgentEmit(t,
         Event("action_approval_needed",
               "Agent is waiting for approval of action "
                 \o Str(0 + 1) \o "/" \o Str(actions[t])))]
  /\ action_approval_event' = clear(t)
  /\ approved' = [approved EXCEPT ![t] = FALSE]
  /\ rejected' = [rejected EXCEPT ![t] = FALSE]
  /\ pc' = [pc EXCEPT ![t] = "gate"]
  /\ published' = [published EXCEPT ![t] = @ + 1]
  /\ decisions' = [decisions EXCEPT ![t] = <<>>]
  /\ resp' = NoResp
  /\ UNCHANGED <<plannerVars, ctorVars, sideVars, current_step_data, active_tasks, status, agent, current_agent,
                 current_batch_next_goal, current_model_output, engine_paused,
                 n_steps, actions, idx, results, executed, outcomes, returned,
                 released, stopped_in_flight, ended>>

\* Mutant of WakeRejected: the rejection flag is not consulted.
WakeIgnoresRejection(t) == FALSE

\* `if self.rejected:` of on_action_start and of wrapped_multi_act (no
\* suspension lies between the two reads).
WakeRejected(t) == rejected[t]

\* The gate waiter resumes after action_approval_event.wait(): on rejection
\* it pauses the engine and wrapped_multi_act returns [] (without the
\* clean-up); otherwise the loop starts and original_multi_act is called on
\* the first action.
Wake(t) ==
  /\ pc[t] = "gate"
  /\ action_approval_event[t]
  /\ pending_approval' = [pending_approval EXCEPT ![t] = FALSE]
  /\ released' = [released EXCEPT ![t] =
                    IF rejected[t] THEN "rejected"
                    ELSE IF approved[t] THEN "approved" ELSE "unset"]
  /\ IF WakeRejected(t) THEN
       /\ engine_paused' = [engine_paused EXCEPT ![t] =
                              IF current_agent[t] = "Agent" THEN TRUE ELSE @]
       /\ events' = [events EXCEPT ![t] = AgentEmit(t, Event("action_rejected", "User rejected the action, agent paused"))]
       /\ returned' = [returned EXCEPT ![t] = << <<>> >>]
       /\ pc' = [pc EXCEPT ![t] = "engine"]
       /\ UNCHANGED <<idx, executed>>
     ELSE
       /\ events' = [events EXCEPT ![t] = AgentEmit(t, Event("action_approved", "User approved the action"))]
       /\ idx' = [idx EXCEPT ![t] = 0]
       /\ executed' = [executed EXCEPT ![t] = Append(@, 0)]
       /\ pc' = [pc EXCEPT ![t] = "exec"]
       /\ UNCHANGED <<engine_paused, returned>>
  /\ resp' = NoResp
  /\ UNCHANGED <<plannerVars, ctorVars, sideVars, current_step_data, active_tasks, status, agent, current_agent, approved, rejected,
                 action_approval_event, current_actions,
                 current_batch_next_goal, current_model_output, n_steps,
                 actions, results, outcomes, published, decisions,
                 stopped_in_flight, ended>>

\* Mutant of StopsBatch: an error result does not end the batch.
StopsBatchOnDoneOnly(o) == o = "done"

\* `if single_result[0].is_done or single_result[0].error: break`
StopsBatch(o) == o \in {"done", "error"}

\* An interceptor that catches the exception and goes on with the batch.
RaisesSwallowed(o) == FALSE

\* `await original_multi_act([action], ...)` raises: wrapped_multi_act has
\* no handler around the call.
Raises(o) == o = "raise"

\* The awaited original_multi_act([actions[i]]) ends with outcome o.  A
\* result list is appended to results unless it is empty; the loop breaks on
\* done/error, goes on to the next action, or ends; after the loop the goal
\* and the model output are cleared and results is returned.  An exception
\* leaves wrapped_multi_act at once (absorb as in GetNextActionReturns).
ActionReturns(t, o, absorb) ==
  /\ pc[t] = "exec"
  /\ outcomes' = [outcomes EXCEPT ![t] = Append(@, o)]
  /\ IF Raises(o) THEN
       /\ IF absorb THEN /\ pc' = [pc EXCEPT ![t] = "engine"]
                         /\ UNCHANGED <<agent, status, events, ended>>
                    ELSE RunFails(t, "action failed")
                         /\ Ends(t, "raised", "action failed")
       /\ UNCHANGED <<results, idx, executed, returned,
                      current_batch_next_goal, current_model_output>>
     ELSE
       LET res == IF o = "empty" THEN results[t]
                  ELSE Append(results[t], [action |-> idx[t], outcome |-> o])
       IN
       /\ results' = [results EXCEPT ![t] = res]
       /\ IF ~(o # "empty" /\ StopsBatch(o)) /\ idx[t] + 1 < actions[t] THEN
            /\ idx' = [idx EXCEPT ![t] = @ + 1]
            /\ executed' = [executed EXCEPT ![t] = Append(@, idx[t] + 1)]
            /\ UNCHANGED <<pc, returned, current_batch_next_goal,
                           current_model_output>>
          ELSE
            /\ current_batch_next_goal' = [current_batch_next_goal EXCEPT ![t] = 0]
            /\ current_model_output' = [current_model_output EXCEPT ![t] = 0]
            /\ returned' = [returned EXCEPT ![t] = <<res>>]
            /\ pc' = [pc EXCEPT ![t] = "engine"]
            /\ UNCHANGED <<idx, executed>>
       /\ UNCHANGED <<agent, status, events, ended>>
  /\ resp' = NoResp
  /\ UNCHANGED <<plannerVars, ctorVars, sideVars, current_step_data, active_tasks, current_agent, pending_approval, approved,
                 rejected, action_approval_event, current_actions,
                 engine_paused, n_steps, actions, published, released,
                 decisions, stopped_in_flight>>

\* agent.run() returns: start()'s `finally` runs stop(); _run_agent_task
\* sets "completed" and logs it only if the status is still "running".
EngineReturns(t) ==
  /\ pc[t] = "engine"
  /\ agent' = stop(t)
  /\ pc' = [pc EXCEPT ![t] = "finished"]
  /\ IF status[t] = "running"
       THEN /\ status' = [status EXCEPT ![t] = "completed"]
            /\ events' = LogEvent(t, Event("info", "Task completed successfully."))
       ELSE UNCHANGED <<status, events>>
  /\ Ends(t, "returned", "")
  /\ resp' = NoResp
  /\ UNCHANGED <<plannerVars, ctorVars, sideVars, current_step_data, active_tasks, current_agent, pending_approval, approved,
                 rejected, action_approval_event, current_actions,
                 current_batch_next_goal, current_model_output, engine_paused,
                 n_steps, actions, idx, results, histVars, stopped_in_flight>>

\* str(e) of the exceptions the engine may raise: some text, or nothing
\* (an exception built without arguments, such as the TimeoutError() of a
\* timed-out await inside the engine).
EngineErrors == {"engine error", ""}

\* agent.run() raises an error of the engine's own, whose str is msg.
EngineRaises(t, msg) ==
  /\ pc[t] = "engine"
  /\ RunFails(t, msg)
  /\ Ends(t, "raised", msg)
  /\ resp' = NoResp
  /\ UNCHANGED <<plannerVars, ctorVars, sideVars, current_step_data, active_tasks, current_agent, pending_approval, approved,
                 rejected, action_approval_event, current_actions,
                 current_batch_next_goal, current_model_output, engine_paused,
                 n_steps, actions, idx, results, histVars, stopped_in_flight>>

\* asyncio.timeout(60) expires at whichever suspension point the run is at:
\* the run is cancelled there and TimeoutError() (whose str is empty)
\* leaves agent.start().
Timeout(t) ==
  /\ InFlight(t)
  /\ RunFails(t, "")
  /\ Ends(t, "timeout", "")
  /\ resp' = NoResp
  /\ UNCHANGED <<plannerVars, ctorVars, sideVars, current_step_data, active_tasks, current_agent, pending_approval, approved,
                 rejected, action_approval_event, current_actions,
                 current_batch_next_goal, current_model_output, engine_paused,
                 n_steps, actions, idx, results, histVars, stopped_in_flight>>

\* --------------------------------------------------------- the plan parser
\* A plan text is a sequence of tokens; the string the code gets is the
\* tokens joined by single spaces.  The tokens are section headers, numbered
\* markers and ordinary words, one of which ("state") is also a word of the
\* patterns' lookaheads.
PlanTokens == {"Next Steps:", "reasoning:", "challenges:",
               "1.", "2.", "a", "b", "state"}
TextsOfLen(n) == [1..n -> PlanTokens]
Texts == UNION {TextsOfLen(n) : n \in 0..MaxTextLen}

\* " ".join(toks)
RECURSIVE Joined(_)
Joined(toks) ==
  IF toks = <<>> THEN ""
  ELSE IF Len(toks) = 1 THEN toks[1]
  ELSE toks[1] \o " " \o Joined(Tail(toks))

\* re.IGNORECASE: the token as the patterns compare it.
Lower(tok) == IF tok = "Next Steps:" THEN "next steps:" ELSE tok

PlanKeys == {"state_analysis", "progress_evaluation", "challenges",
             "next_steps", "reasoning"}

\* The header alternatives of each pattern, colon included.
Headers(key) ==
  CASE key = "state_analysis" -> {"state analysis:", "current state:"}
    [] key = "progress_evaluation" -> {"progress:", "evaluation:"}
    [] key = "challenges" -> {"challenges:"}
    [] key = "next_steps" -> {"next steps:"}
    [] key = "reasoning" -> {"reasoning:"}

\* The alternatives of each pattern's lookahead (?=...|\Z): bare words.
StopWords(key) ==
  CASE key = "state_analysis" ->
         {"progress", "evaluation", "challenges", "next steps", "reasoning"}
    [] key = "progress_evaluation" ->
         {"state", "challenges", "next steps", "reasoning"}
    [] key = "challenges" ->
         {"state", "progress", "evaluation", "next steps", "reasoning"}
    [] key = "next_steps" ->
         {"state", "progress", "evaluation", "challenges", "reasoning"}
    [] key = "reasoning" ->
         {"state", "progress", "evaluation", "challenges", "next steps"}

\* The lookahead alternatives that match the text at the start of a token
\* (none matches inside one).
Begins(tok) ==
  CASE Lower(tok) = "next steps:" -> {"next steps"}
    [] Lower(tok) = "reasoning:" -> {"reasoning"}
    [] Lower(tok) = "challenges:" -> {"challenges"}
    [] Lower(tok) = "state" -> {"state"}
    [] OTHER -> {}

\* Tokens that match \d+\. (no token matches a bullet or "Step N:").
Markers == {"1.", "2."}

Least(S) == CHOOSE i \in S : \A j \in S : i <= j

\* BrowserAgent._extract_steps: with numbered markers, what follows each
\* marker up to the next marker or the end, stripped, the empty ones
\* dropped; without any (the text has one line), the whole text if not empty.
_extract_steps(toks) ==
  LET marks == SelectSeq([i \in 1..Len(toks) |-> i],
                         LAMBDA i : toks[i] \in Markers)
      item(k) == SubSeq(toks, marks[k] + 1,
                        (IF k < Len(marks) THEN marks[k + 1]
                                           ELSE Len(toks) + 1) - 1)
  IN IF marks # <<>>
       THEN SelectSeq([k \in 1..Len(marks) |-> Joined(item(k))],
                      LAMBDA x : x # "")
     ELSE IF toks # <<>> THEN <<Joined(toks)>>
     ELSE <<>>

\* re.search(pattern, text): the tokens of match.group(1) for the pattern
\* of key, from behind the leftmost header to the first place at which one
\* of the words `stops` begins, or to the end.
Section(key, toks, stops) ==
  LET heads == {i \in 1..Len(toks) : Lower(toks[i]) \in Headers(key)}
      h == Least(heads)
      ends == {j \in (h + 1)..Len(toks) : Begins(toks[j]) \cap stops # {}}
  IN IF heads = {} THEN <<>>
     ELSE SubSeq(toks, h + 1,
                 (IF ends = {} THEN Len(toks) + 1 ELSE Least(ends)) - 1)

\* BrowserAgent._parse_planner_text.  parsed is not a key of the dict: it
\* records that the function has returned.
_parse_planner_text(toks) ==
  LET found == [key \in PlanKeys |-> Section(key, toks, StopWords(key))]
      steps == _extract_steps(found["next_steps"])
      nothing == /\ steps = <<>>
                 /\ \A key \in PlanKeys \ {"next_steps"} : found[key] = <<>>
  IN [state_analysis |-> Joined(found["state_analysis"]),
      progress_evaluation |-> Joined(found["progress_evaluation"]),
      challenges |-> Joined(found["challenges"]),
      next_steps |-> IF nothing THEN _extract_steps(toks) ELSE steps,
      reasoning |-> IF nothing THEN Joined(toks)
                               ELSE Joined(found["reasoning"]),
      parsed |-> TRUE]

\* ------------------------------------------------------------ the planner
\* What original_run_planner may return: a plan text, or nothing (None or
\* "", the empty sequence of tokens).
Plans == {<<"a">>, <<"Next Steps:", "1.", "b">>}
NoPlanText == <<>>

\* The dict _parse_planner_text returned, as plan_data["content"] holds it.
PlanContent(sp) ==
  [state_analysis |-> sp.state_analysis,
   progress_evaluation |-> sp.progress_evaluation,
   challenges |-> sp.challenges, next_steps |-> sp.next_steps,
   reasoning |-> sp.reasoning]

\* A planner hook that keeps the latest snapshot only.
KeepLatestPlan(t, plan_data) == [planner_thoughts EXCEPT ![t] = <<plan_data>>]

\* self.planner_thoughts.append(plan_data)
AppendPlan(t, plan_data) == [planner_thoughts EXCEPT ![t] = Append(@, plan_data)]

\* A planner hook that leaves the flag as it is.
MarkUnseenSkipped(t) == planner_updated

\* self.planner_updated = True
MarkUnseen(t) == [planner_updated EXCEPT ![t] = TRUE]

\* wrapped_run_planner, called by the engine between two steps, once
\* original_run_planner has returned `plan`: a plan that is not falsy is
\* parsed by _parse_planner_text (a text of these tokens is no dict and no
\* JSON object, and the parsed dict has the five fields), becomes
\* latest_plan, is appended to planner_thoughts, sets planner_updated, and
\* planner_updated is handed to _handle_event once.  With no plan nothing
\* is parsed and nothing is recorded.
PlannerRuns(t, plan) ==
  /\ pc[t] = "engine"
  /\ Len(planner_thoughts[t]) < MaxPlans
  /\ text' = plan
  /\ IF plan = NoPlanText
       THEN /\ structured_plan' = NoPlan
            /\ UNCHANGED <<plannerVars, events, calls>>
     ELSE LET plan_data == [content |-> PlanContent(structured_plan')]
              ev == Event("planner_updated", "Planner has generated new thoughts")
          IN
          /\ structured_plan' = _parse_planner_text(plan)
          /\ latest_plan' = [latest_plan EXCEPT ![t] = plan_data]
          /\ planner_thoughts' = AppendPlan(t, plan_data)
          /\ planner_updated' = MarkUnseen(t)
          /\ calls' = [calls EXCEPT ![t] =
                         Append(@, [op |-> "_handle_event", arg |-> ev])]
          /\ events' = [events EXCEPT ![t] = AgentEmit(t, ev)]
  /\ resp' = NoResp
  /\ UNCHANGED <<appVars, envVars, description, on_event, active_tasks, status,
                 agentVars, runVars, histVars, stopped_in_flight, ended>>

\* A fetch that also resets the flag.
UpdatedResetByFetch(t) == [planner_updated EXCEPT ![t] = FALSE]

\* get_planner_thoughts leaves planner_updated as it is.
UpdatedAfterFetch(t) == planner_updated

\* BrowserAgent.get_planner_thoughts: without thoughts the answer has no
\* updated_since_last_fetch key.
GetPlannerThoughts(t) ==
  /\ on_event[t] # "unbuilt"
  /\ resp' = IF planner_thoughts[t] = <<>>
               THEN [NoResp EXCEPT !.op = "get_planner_thoughts", !.task = t]
               ELSE [NoResp EXCEPT !.op = "get_planner_thoughts", !.task = t,
                       !.has_thoughts = TRUE,
                       !.latest = latest_plan[t],
                       !.all_thoughts = planner_thoughts[t],
                       !.updated_since_last_fetch =
                          IF planner_updated[t] THEN "True" ELSE "False"]
  /\ planner_updated' = UpdatedAfterFetch(t)
  /\ UNCHANGED <<ctorVars, sideVars, active_tasks, status, events, agentVars, runVars,
                 histVars, stopped_in_flight, ended, planner_thoughts,
                 latest_plan>>

\* BrowserAgent.mark_planner_thoughts_seen: returns {"success": True}
MarkPlannerThoughtsSeen(t) ==
  /\ t \in active_tasks
  /\ planner_updated' = [planner_updated EXCEPT ![t] = FALSE]
  /\ resp' = [NoResp EXCEPT !.op = "mark_planner_thoughts_seen", !.task = t,
                            !.success = TRUE]
  /\ UNCHANGED <<ctorVars, sideVars, active_tasks, status, events, agentVars, runVars, histVars,
                 stopped_in_flight, ended, planner_thoughts, latest_plan>>

\* ------------------------------------------------------------ specification
Startups == {"ok", "no_credentials", "no_browser"}

\* The specifications of the registry follow an engine whose history stays
\* empty, so that every step is published with step_number 0; SpecPlan
\* follows one that records its steps.
EmptyHistory == {FALSE}

\* Every step of the system for the task ids `ids`, the control calls going
\* through the endpoints of kind `kinds` ("action": /approve-action and
\* /reject-action; "step": the legacy /approve and /reject).
NextOf(ids, kinds) ==
  \E t \in ids :
    \/ CreateTask(t)
    \/ GetStatus(t)
    \/ GetAction(t)
    \/ \E k \in kinds : Approve(t, k)
    \/ \E k \in kinds : Reject(t, k)
    \/ StopTask(t)
    \/ ResumeTask(t)
    \/ \E s \in Startups : BackgroundStart(t, s)
    \/ OnStepStart(t)
    \/ \E b \in EmptyHistory : StepStarted(t, b)
    \/ \E n \in 0..MaxBatch, b \in BOOLEAN : GetNextActionReturns(t, n, b)
    \/ Publish(t)
    \/ Wake(t)
    \/ \E o \in Outcomes, b \in BOOLEAN : ActionReturns(t, o, b)
    \/ EngineReturns(t)
    \/ \E m \in EngineErrors : EngineRaises(t, m)
    \/ Timeout(t)

\* One task, driven through the action endpoints.
Next == NextOf(SoloIds, {"action"})
Spec == Init /\ [][Next]_vars

\* One task with the clock: asyncio.timeout(60) is a wall-clock timer of the
\* event loop, so a run that stays inside agent.run() is cancelled in the
\* end.  The two queries, which change nothing, are left out, and of the
\* primitive's outcomes one of each kind is kept: the batch goes on, the
\* batch ends, an exception.
TimedOutcomes == {"ok", "done", "raise"}
NextTimed ==
  \E t \in SoloIds :
    \/ CreateTask(t)
    \/ Approve(t, "action")
    \/ Reject(t, "action")
    \/ StopTask(t)
    \/ ResumeTask(t)
    \/ \E s \in Startups : BackgroundStart(t, s)
    \/ OnStepStart(t)
    \/ \E b \in EmptyHistory : StepStarted(t, b)
    \/ \E n \in 0..MaxBatch, b \in BOOLEAN : GetNextActionReturns(t, n, b)
    \/ Publish(t)
    \/ Wake(t)
    \/ \E o \in TimedOutcomes, b \in BOOLEAN : ActionReturns(t, o, b)
    \/ EngineReturns(t)
    \/ \E m \in EngineErrors : EngineRaises(t, m)
    \/ Timeout(t)
SpecTimed ==
  Init /\ [][NextTimed]_vars /\ \A t \in SoloIds : WF_vars(Timeout(t))

\* One task, driven through the legacy step endpoints.
NextLegacy == NextOf(SoloIds, {"step"})
SpecLegacy == Init /\ [][NextLegacy]_vars

\* ------------------------------------------- a BrowserAgent used directly
\* The events a direct caller hands to _handle_event.
DirectEvents == {Event("navigation", "https://www.google.com"),
                 Event("step_started", "Starting a new step")}

\* The calls of _handle_event recorded for t, in call order.
HandledCalls(t) == SelectSeq(calls[t], LAMBDA c : c.op = "_handle_event")

\* agent = BrowserAgent(task, on_event=...), outside the registry.
Construct(t, d, cb) ==
  /\ on_event[t] = "unbuilt"
  /\ t \notin active_tasks
  /\ __init__(t, d, cb)
  /\ resp' = NoResp
  /\ UNCHANGED <<sideVars, active_tasks, status, events, agentVars, runVars, histVars,
                 stopped_in_flight, ended, plannerVars>>

\* agent._handle_event(ev)
HandleEvent(t, ev) ==
  /\ on_event[t] # "unbuilt"
  /\ Len(HandledCalls(t)) < MaxHandled
  /\ calls' = [calls EXCEPT ![t] = Append(@, [op |-> "_handle_event", arg |-> ev])]
  /\ events' = [events EXCEPT ![t] = _handle_event(t, ev)]
  /\ resp' = NoResp
  /\ UNCHANGED <<sideVars, active_tasks, status, agentVars, runVars, histVars,
                 stopped_in_flight, ended, plannerVars, description, on_event>>

\* await agent.approve_action() / await agent.reject_action(): False unless
\* an approval is pending.
AgentDecide(t, op) ==
  /\ on_event[t] # "unbuilt"
  /\ IF CanDecide(t)
       THEN /\ IF op = "approve_action" THEN approve_action(t) ELSE reject_action(t)
            /\ decisions' = [decisions EXCEPT ![t] =
                   Append(@, IF op = "approve_action" THEN "approved" ELSE "rejected")]
       ELSE UNCHANGED <<approved, rejected, action_approval_event, decisions>>
  /\ resp' = [NoResp EXCEPT !.op = op, !.task = t, !.success = CanDecide(t)]
  /\ UNCHANGED <<sideVars, current_step_data, active_tasks, status, events, agent, current_agent,
                 pending_approval, current_actions, current_batch_next_goal,
                 current_model_output, runVars, executed, outcomes, returned,
                 published, released, stopped_in_flight, ended, plannerVars,
                 ctorVars>>

\* await agent.get_current_step()
AgentGetCurrentStep(t) ==
  /\ on_event[t] # "unbuilt"
  /\ resp' = [NoResp EXCEPT !.op = "get_current_step", !.task = t,
                            !.pending = (get_current_step(t) # NoAction),
                            !.action = get_current_step(t)]
  /\ UNCHANGED <<sideVars, active_tasks, status, events, agentVars, runVars, histVars,
                 stopped_in_flight, ended, plannerVars, ctorVars>>

\* BrowserAgent objects built and called directly, as the tests do.
NextAgent ==
  \E t \in TaskIds :
    \/ \E d \in Descriptions, cb \in Callbacks : Construct(t, d, cb)
    \/ \E ev \in DirectEvents : HandleEvent(t, ev)
    \/ \E op \in {"approve_action", "reject_action"} : AgentDecide(t, op)
    \/ AgentGetCurrentStep(t)
SpecAgent == Init /\ [][NextAgent]_vars

\* ------------------------------------------------- the registry of app.py
\* The keys of app.active_connections: a connection is entered on accept
\* and removed by the handler's `except WebSocketDisconnect`; a handler
\* that an other exception ended ("orphaned") has left its key behind.
active_connections ==
  {c \in ConnIds : websocket[c] \in {"open", "orphaned"} \cup Uuids}

\* The keys of app.active_tasks.
AppKeys == {i \in AppIds : app_active_tasks[i] # NoEntry}

\* task_id = str(len(active_tasks))
LenId == Str(Cardinality(AppKeys))

\* run_task's `finally: if task_id in active_tasks: del active_tasks[task_id]`
RunTaskCleanup(u) == [app_active_tasks EXCEPT ![u] = NoEntry]

\* POST /tasks of app.py: the BrowserAgent is stored under the key
\* str(len(active_tasks)), whatever that key held.  A start request pending
\* on the BrowserAgent that was there goes on with an object the registry no
\* longer holds ("detached").
AppCreateTask(d) ==
  /\ Cardinality(AppKeys) < MaxAppTasks
  /\ app_active_tasks' = [app_active_tasks EXCEPT ![LenId] =
        [kind |-> "agent", description |-> d, connection_id |-> "None",
         agent |-> "None"]]
  /\ app_run' = [app_run EXCEPT ![LenId] =
                   IF @ = "started" THEN "detached" ELSE @]
  /\ resp' = [NoResp EXCEPT !.op = "app_create_task", !.task = LenId,
                            !.code = 200, !.status = "created"]
  /\ UNCHANGED <<registryVars, websocket, envVars, parseVars>>

\* The exception with which agent.start() fails before the engine is built.
StartupError(startup) ==
  IF startup = "no_credentials" THEN "ValueError" ELSE "RuntimeError"

\* POST /tasks/{task_id}/start of app.py: `await agent.start()` on the stored
\* value.  A dict has no start(): AttributeError, answered 500.  On a
\* BrowserAgent start() builds the engine and the request stays pending
\* inside agent.run(); when start() fails before that the exception is
\* answered 500.  One start request per id is followed at a time.
AppStartTask(i, startup) ==
  /\ IF app_active_tasks[i] = NoEntry THEN
       /\ resp' = [NoResp EXCEPT !.op = "app_start_task", !.task = i,
                                 !.code = 200, !.message = "Task not found"]
       /\ UNCHANGED <<app_active_tasks, app_run>>
     ELSE IF app_active_tasks[i].kind = "dict" THEN
       /\ resp' = [NoResp EXCEPT !.op = "app_start_task", !.task = i,
                                 !.code = 500, !.message = "AttributeError"]
       /\ UNCHANGED <<app_active_tasks, app_run>>
     ELSE
       /\ app_run[i] = "none"
       /\ IF startup = "ok" THEN
            /\ app_active_tasks' = [app_active_tasks EXCEPT ![i].agent = "Agent"]
            /\ app_run' = [app_run EXCEPT ![i] = "started"]
            /\ resp' = NoResp
          ELSE
            /\ resp' = [NoResp EXCEPT !.op = "app_start_task", !.task = i,
                                      !.code = 500,
                                      !.message = StartupError(startup)]
            /\ UNCHANGED <<app_active_tasks, app_run>>
  /\ UNCHANGED <<registryVars, websocket, envVars, parseVars>>

\* How agent.start() is left once the engine runs: agent.run() returns, or
\* an exception (the TimeoutError included) leaves it.
RunOutcomes == {"returned", "raised"}

\* The agent.start() awaited by POST /tasks/{task_id}/start is left: its
\* `finally` runs stop() on the BrowserAgent, and the request is answered
\* {"status": "started"}, or 500 when start() raised.
AppStartReturns(i, outcome) ==
  /\ i \in RestIds
  /\ app_run[i] \in {"started", "detached"}
  /\ app_active_tasks' =
       IF app_run[i] = "started"
         THEN [app_active_tasks EXCEPT ![i].agent = "None"]
         ELSE app_active_tasks
  /\ app_run' = [app_run EXCEPT ![i] = "none"]
  /\ resp' = IF outcome = "returned"
               THEN [NoResp EXCEPT !.op = "app_start_task", !.task = i,
                                   !.code = 200, !.status = "started"]
               ELSE [NoResp EXCEPT !.op = "app_start_task", !.task = i,
                                   !.code = 500]
  /\ UNCHANGED <<registryVars, websocket, envVars, parseVars>>

\* POST /tasks/{task_id}/stop of app.py: `await agent.stop()` on the stored
\* value.  A dict has no stop(): AttributeError, answered 500.
AppStopTask(i) ==
  /\ IF app_active_tasks[i] = NoEntry THEN
       /\ resp' = [NoResp EXCEPT !.op = "app_stop_task", !.task = i,
                                 !.code = 200, !.message = "Task not found"]
       /\ UNCHANGED app_active_tasks
     ELSE IF app_active_tasks[i].kind = "dict" THEN
       /\ resp' = [NoResp EXCEPT !.op = "app_stop_task", !.task = i,
                                 !.code = 500]
       /\ UNCHANGED app_active_tasks
     ELSE
       /\ app_active_tasks' = [app_active_tasks EXCEPT ![i].agent = "None"]
       /\ resp' = [NoResp EXCEPT !.op = "app_stop_task", !.task = i,
                                 !.code = 200, !.status = "stopped"]
  /\ UNCHANGED <<registryVars, websocket, app_run, envVars, parseVars>>

\* A client connects to /ws: accept, connection_id = str(uuid.uuid4()).
WsConnect(c) ==
  /\ websocket[c] = "unused"
  /\ websocket' = [websocket EXCEPT ![c] = "open"]
  /\ resp' = NoResp
  /\ UNCHANGED <<registryVars, app_active_tasks, app_run, envVars, parseVars>>

\* Message start_task, up to `await websocket.send_json(task_started)`: a
\* dict is stored under a fresh uuid; the run is not scheduled yet.
WsStartTask(c, u, d) ==
  /\ websocket[c] = "open"
  /\ app_run[u] = "none"
  /\ app_active_tasks' = [app_active_tasks EXCEPT ![u] =
        [kind |-> "dict", description |-> d, connection_id |-> c,
         agent |-> "None"]]
  /\ app_run' = [app_run EXCEPT ![u] = "unscheduled"]
  /\ websocket' = [websocket EXCEPT ![c] = u]
  /\ resp' = [NoResp EXCEPT !.op = "ws_start_task", !.task = u]
  /\ UNCHANGED <<registryVars, envVars, parseVars>>

\* send_json(task_started) completes: asyncio.create_task(run_task(task_id)),
\* whether or not the task is still in the registry, and the handler goes
\* back to receive_text.
WsTaskStarted(c) ==
  /\ websocket[c] \in Uuids
  /\ app_run' = [app_run EXCEPT ![websocket[c]] = "scheduled"]
  /\ websocket' = [websocket EXCEPT ![c] = "open"]
  /\ resp' = [NoResp EXCEPT !.op = "ws_start_task", !.task = websocket[c],
                            !.message = "task_started"]
  /\ UNCHANGED <<registryVars, app_active_tasks, envVars, parseVars>>

\* Message stop_task: a task in the registry is stopped and deleted.  For a
\* value stored by POST /tasks, task["agent"] raises TypeError, which ends
\* the handler (only WebSocketDisconnect is caught).
WsStopTask(c, i) ==
  /\ websocket[c] = "open"
  /\ IF app_active_tasks[i] = NoEntry THEN
       /\ resp' = [NoResp EXCEPT !.op = "ws_stop_task", !.task = i]
       /\ UNCHANGED <<app_active_tasks, websocket>>
     ELSE IF app_active_tasks[i].kind = "agent" THEN
       /\ websocket' = [websocket EXCEPT ![c] = "orphaned"]
       /\ resp' = [NoResp EXCEPT !.op = "ws_stop_task", !.task = i,
                                 !.message = "TypeError"]
       /\ UNCHANGED app_active_tasks
     ELSE
       /\ app_active_tasks' = [app_active_tasks EXCEPT ![i] = NoEntry]
       /\ resp' = [NoResp EXCEPT !.op = "ws_stop_task", !.task = i,
                                 !.message = "task_stopped"]
       /\ UNCHANGED websocket
  /\ UNCHANGED <<registryVars, app_run, envVars, parseVars>>

\* Message approve_step: for a task in the registry the call
\* task["agent"].approve_step(step_id, approved) raises TypeError, either
\* at the subscript or because approve_step takes no argument.
WsApproveStep(c, i) ==
  /\ websocket[c] = "open"
  /\ IF app_active_tasks[i] = NoEntry THEN
       /\ resp' = [NoResp EXCEPT !.op = "ws_approve_step", !.task = i]
       /\ UNCHANGED websocket
     ELSE
       /\ websocket' = [websocket EXCEPT ![c] = "orphaned"]
       /\ resp' = [NoResp EXCEPT !.op = "ws_approve_step", !.task = i,
                                 !.message = "TypeError"]
  /\ UNCHANGED <<registryVars, app_active_tasks, app_run, envVars, parseVars>>

\* The client goes away: receive_text raises WebSocketDisconnect.  The
\* connection is removed; then the tasks of the connection are collected by
\* reading task["connection_id"] of every value, which raises TypeError on
\* a value stored by POST /tasks before anything is removed.
WsDisconnect(c) ==
  /\ websocket[c] = "open"
  /\ websocket' = [websocket EXCEPT ![c] = "closed"]
  /\ app_active_tasks' =
       IF \E i \in AppKeys : app_active_tasks[i].kind = "agent"
         THEN app_active_tasks
         ELSE [i \in AppIds |->
                 IF app_active_tasks[i].connection_id = c
                   THEN NoEntry ELSE app_active_tasks[i]]
  /\ resp' = NoResp
  /\ UNCHANGED <<registryVars, app_run, envVars, parseVars>>

\* run_task up to its first suspension.  It returns at once when the task
\* is no longer in the registry or its connection is not in
\* active_connections.  Otherwise it awaits task["agent"].start(): the
\* engine is built and run, or start() raises before that and the `except`
\* awaits send_json(task_failed).
RunTaskBegins(u, startup) ==
  /\ app_run[u] = "scheduled"
  /\ IF /\ app_active_tasks[u] # NoEntry
        /\ app_active_tasks[u].connection_id \in active_connections
       THEN IF startup = "ok"
              THEN /\ app_run' = [app_run EXCEPT ![u] = "started"]
                   /\ app_active_tasks' =
                        [app_active_tasks EXCEPT ![u].agent = "Agent"]
              ELSE /\ app_run' = [app_run EXCEPT ![u] = "reporting"]
                   /\ UNCHANGED app_active_tasks
       ELSE /\ app_run' = [app_run EXCEPT ![u] = "skipped"]
            /\ UNCHANGED app_active_tasks
  /\ resp' = NoResp
  /\ UNCHANGED <<registryVars, websocket, envVars, parseVars>>

\* agent.start() returns or raises: its `finally` has run stop() on the
\* BrowserAgent (which the registry may no longer hold), and run_task awaits
\* send_json(task_completed) or, in its `except`, send_json(task_failed).
RunTaskEnds(u) ==
  /\ u \in Uuids
  /\ app_run[u] = "started"
  /\ app_run' = [app_run EXCEPT ![u] = "reporting"]
  /\ app_active_tasks' =
       IF app_active_tasks[u] = NoEntry THEN app_active_tasks
       ELSE [app_active_tasks EXCEPT ![u].agent = "None"]
  /\ resp' = NoResp
  /\ UNCHANGED <<registryVars, websocket, envVars, parseVars>>

\* The message is sent: run_task's `finally` deletes the task from the
\* registry if it is still there.
RunTaskReported(u) ==
  /\ app_run[u] = "reporting"
  /\ app_run' = [app_run EXCEPT ![u] = "ended"]
  /\ app_active_tasks' = RunTaskCleanup(u)
  /\ resp' = NoResp
  /\ UNCHANGED <<registryVars, websocket, envVars, parseVars>>

\* The description the clients of app.py send.
AppDescriptions == {"d1"}

NextApp ==
  \/ \E d \in AppDescriptions : AppCreateTask(d)
  \/ \E i \in AppIds, s \in Startups : AppStartTask(i, s)
  \/ \E i \in AppIds, o \in RunOutcomes : AppStartReturns(i, o)
  \/ \E i \in AppIds : AppStopTask(i)
  \/ \E c \in ConnIds : WsConnect(c)
  \/ \E c \in ConnIds, u \in Uuids, d \in AppDescriptions :
        WsStartTask(c, u, d)
  \/ \E c \in ConnIds : WsTaskStarted(c)
  \/ \E c \in ConnIds, i \in AppIds : WsStopTask(c, i)
  \/ \E c \in ConnIds, i \in AppIds : WsApproveStep(c, i)
  \/ \E c \in ConnIds : WsDisconnect(c)
  \/ \E u \in Uuids, s \in Startups : RunTaskBegins(u, s)
  \/ \E u \in Uuids : RunTaskEnds(u)
  \/ \E u \in Uuids : RunTaskReported(u)
SpecApp == Init /\ [][NextApp]_vars

\* ----------------------------------------------------- credential checks
\* bool(os.getenv(v)): None for an absent variable and "" are falsy.
Getenv(v) == environ[v] = "v"

\* run.py: has_openai, has_azure; the same two tests order BrowserAgent.start.
has_openai == Getenv("OPENAI_API_KEY")
has_azure == Getenv("AZURE_ENDPOINT") /\ Getenv("AZURE_OPENAI_API_KEY")

\* BrowserAgent.start: the if/elif/else that builds llm.
SelectLlm ==
  IF has_azure THEN "AzureChatOpenAI"
  ELSE IF has_openai THEN "ChatOpenAI"
  ELSE "ValueError"

\* cli.run's test: `if not os.getenv("OPENAI_API_KEY")`
CliAccepts == has_openai

\* The processes start in any environment.
InitEnv ==
  /\ InitRegistry
  /\ InitApp
  /\ environ \in Environs /\ dotenv \in Environs /\ llm = "unset"
  /\ text = <<>> /\ structured_plan = NoPlan

\* agent.start() up to the selection of the model client; the ValueError
\* leaves start() before the engine is built.
AgentSelects ==
  /\ llm' = SelectLlm
  /\ resp' = [NoResp EXCEPT !.op = "start",
                 !.success = (SelectLlm # "ValueError"),
                 !.message = IF SelectLlm = "ValueError"
                               THEN "Either OPENAI_API_KEY or (AZURE_ENDPOINT and AZURE_OPENAI_API_KEY) environment variables are required"
                               ELSE ""]
  /\ UNCHANGED <<registryVars, appVars, environ, dotenv, parseVars>>

\* load_dotenv(): a variable of the .env file is written into os.environ
\* unless os.environ already has it, with whatever value.
load_dotenv ==
  [v \in CredentialVars |->
     IF environ[v] = "unset" THEN dotenv[v] ELSE environ[v]]

\* run.py check_env_vars: after load_dotenv() it prints the error and exits
\* with 1 unless one of the two profiles is there.
CheckEnvVars ==
  /\ environ' = load_dotenv
  /\ resp' = [NoResp EXCEPT !.op = "check_env_vars",
                 !.success = (has_openai' \/ has_azure'),
                 !.code = IF has_openai' \/ has_azure' THEN 0 ELSE 1,
                 !.message = IF has_openai' \/ has_azure' THEN ""
                             ELSE "Error: Either OPENAI_API_KEY or (AZURE_ENDPOINT and AZURE_OPENAI_API_KEY) environment variables are required"]
  /\ UNCHANGED <<registryVars, appVars, dotenv, llm, parseVars>>

\* The line cli.run prints when it refuses the environment (the `except`
\* that catches its click.Abort then prints "Error: ").
CliRefusal == "Error: OPENAI_API_KEY environment variable is required"

\* How agent.start() goes once the client is selected: it returns, no
\* browser instance is created, or an exception leaves the run.
CliEndings == {"returned", "no_browser", "raised"}

\* cli.run: aborts unless OPENAI_API_KEY is there, else builds the agent
\* and runs agent.start(), which selects the client, to its end.  An
\* exception that leaves start() is printed as "Error: " + str(e) and the
\* command aborts with exit status 1.
CliRun(ending, msg) ==
  /\ IF CliAccepts
       THEN /\ llm' = SelectLlm
            /\ resp' =
                 IF ending = "returned"
                   THEN [NoResp EXCEPT !.op = "cli_run", !.success = TRUE]
                   ELSE [NoResp EXCEPT !.op = "cli_run", !.success = FALSE,
                           !.code = 1,
                           !.message =
                              IF ending = "no_browser"
                                THEN "Error: Failed to create browser instance"
                                ELSE "Error: " \o msg]
       ELSE /\ llm' = llm
            /\ resp' = [NoResp EXCEPT !.op = "cli_run", !.success = FALSE,
                           !.code = 1, !.message = CliRefusal]
  /\ UNCHANGED <<registryVars, appVars, environ, dotenv, parseVars>>

NextEnv ==
  \/ AgentSelects
  \/ CheckEnvVars
  \/ \E e \in CliEndings, m \in EngineErrors : CliRun(e, m)
SpecEnv == InitEnv /\ [][NextEnv]_vars

\* ------------------------------------------------- the planner's texts
\* The engine with a planner hook that is handed any text once: a task is
\* created and started, and the planner returns a text before its first
\* snapshot.
FirstPlan(t) == planner_thoughts[t] = <<>>

NextParse ==
  \E t \in SoloIds :
    \/ CreateTask(t)
    \/ BackgroundStart(t, "ok")
    \/ \E n \in 0..MaxTextLen :
         \E plan \in TextsOfLen(n) : FirstPlan(t) /\ PlannerRuns(t, plan)
SpecParse == Init /\ [][NextParse]_vars

\* A short run: the engine takes one step, with a batch of one action that
\* succeeds or raises, no exception is absorbed by the engine, and the user
\* makes at most two calls that are logged (a decision and a resume).
ShortBatches == {1}
ShortOutcomes == {"ok", "raise"}
ShortFirstStep(t) == n_steps[t] = 0
ShortSecondStep(t) == n_steps[t] = 1
ShortRoom(t) == UserEvents(t) \in 0..1

\* Every step of the system for the task ids `ids`, each run being short.
NextShort(ids) ==
  \E t \in ids :
    \/ CreateTask(t)
    \/ GetStatus(t)
    \/ GetAction(t)
    \/ ShortRoom(t) /\ Approve(t, "action")
    \/ ShortRoom(t) /\ Reject(t, "action")
    \/ StopTask(t)
    \/ ShortRoom(t) /\ ResumeTask(t)
    \/ \E s \in Startups : BackgroundStart(t, s)
    \/ ShortFirstStep(t) /\ OnStepStart(t)
    \/ StepStarted(t, FALSE)
    \/ \E n \in ShortBatches : GetNextActionReturns(t, n, FALSE)
    \/ Publish(t)
    \/ Wake(t)
    \/ \E o \in ShortOutcomes : ActionReturns(t, o, FALSE)
    \/ EngineReturns(t)
    \/ \E m \in EngineErrors : EngineRaises(t, m)
    \/ Timeout(t)

\* Two tasks side by side, each with a short run.
NextIso == NextShort(TaskIds)
SpecIso == Init /\ [][NextIso]_vars

\* One task with a short run of up to two steps, whose engine also calls
\* the planner and records its steps.
NextPlan ==
  \/ NextShort(SoloIds)
  \/ \E t \in SoloIds :
       \/ ShortSecondStep(t) /\ OnStepStart(t)
       \/ StepStarted(t, TRUE)
       \/ \E plan \in Plans \cup {NoPlanText} : PlannerRuns(t, plan)
       \/ MarkPlannerThoughtsSeen(t)
       \/ GetPlannerThoughts(t)
       \/ GetStatusOnly(t)
       \/ GetStep(t)
SpecPlan == Init /\ [][NextPlan]_vars

\* ================================================================== claims
Last(q) == q[Len(q)]
Range(q) == {q[i] : i \in 1..Len(q)}
\* PendingActions published and not yet taken from the gate by the waiter.
Open(t) == published[t] - (IF released[t] # "none" THEN 1 ELSE 0)
DecisionOps == {"approve", "reject"}

\* C1: the primitive (original multi_act) is invoked on an action of a batch
\* only after one PendingAction was published for the batch and the gate
\* waiter woke up with the decision approved, the last accepted decision
\* being an approve; nothing of the batch has run while the interceptor is
\* before or at the gate, and nothing runs when the gate released rejected.
C1_ExecutedOnlyAfterApproval ==
  \A t \in TaskIds :
    /\ (pc[t] = "exec" \/ executed[t] # <<>>) =>
         /\ published[t] = 1
         /\ released[t] = "approved"
         /\ decisions[t] # <<>>
         /\ Last(decisions[t]) = "approved"
    /\ pc[t] \in {"hook", "gate"} => executed[t] = <<>>
    /\ released[t] = "rejected" => executed[t] = <<>>

\* C1 witness: the second action of an approved batch is being executed.
C1_Witness ==
  \E t \in TaskIds : pc[t] = "exec" /\ Len(executed[t]) = 2
                     /\ released[t] = "approved"

\* C2: the decision on a PendingAction is one-shot: at most one approve or
\* reject succeeds for the current PendingAction, so the accepted decisions
\* of a PendingAction never number more than one.
C2_DecisionOneShot ==
  \A t \in TaskIds : Len(decisions[t]) <= 1

\* C3: a task has at most one PendingAction: at most one published
\* PendingAction is open at the gate, pending_approval holds exactly while
\* one is open, no batch publishes twice, and get-pending-action answers
\* none exactly when none is open and otherwise that single action.
C3_AtMostOnePending ==
  /\ \A t \in TaskIds :
       /\ Open(t) \in {0, 1}
       /\ published[t] <= 1
       /\ pending_approval[t] <=> (Open(t) = 1)
  /\ (resp.op = "get_action" /\ resp.code = 200) =>
       /\ resp.pending <=> (Open(resp.task) = 1)
       /\ resp.pending => resp.action = current_actions[resp.task]
       /\ ~resp.pending => resp.action = NoAction

\* C3 witness: get-pending-action has answered with the action of the second
\* batch while a decision on it is already recorded and the waiter has not
\* yet woken.
C3_Witness ==
  /\ resp.op = "get_action" /\ resp.pending
  /\ resp.action.next_goal = 2 /\ n_steps[resp.task] = 2
  /\ decisions[resp.task] # <<>>
  /\ pc[resp.task] = "gate"

\* C4: approve or reject on a task without a pending action answers failure
\* and leaves the status, the decision flags, the gate signal and the event
\* log as they were.
C4_NoPendingNoEffect ==
  [][\A t \in TaskIds :
       (resp'.op \in DecisionOps /\ resp'.task = t /\ ~pending_approval[t]) =>
         /\ ~resp'.success
         /\ status'[t] = status[t]
         /\ approved'[t] = approved[t]
         /\ rejected'[t] = rejected[t]
         /\ action_approval_event'[t] = action_approval_event[t]
         /\ events'[t] = events[t]]_vars

\* C4 witness: a running task without a pending action has refused a
\* decision.
C4_Witness ==
  /\ resp.op \in DecisionOps /\ ~resp.success
  /\ resp.message = "No action is pending approval"
  /\ status[resp.task] = "running"
  /\ ~pending_approval[resp.task]
  /\ executed[resp.task] # <<>>

\* C5: approve and reject succeed only in status running with a
\* PendingAction; in any other status they answer failure with a reason,
\* record no decision, do not set the gate signal and keep the status; a
\* successful approve leaves the status running.
C5_OnlyWhenRunningAndPending ==
  [][\A t \in TaskIds :
       (resp'.op \in DecisionOps /\ resp'.task = t /\ t \in active_tasks) =>
         /\ resp'.success => (status[t] = "running" /\ pending_approval[t])
         /\ status[t] # "running" =>
              /\ ~resp'.success
              /\ resp'.message # ""
              /\ approved'[t] = approved[t]
              /\ rejected'[t] = rejected[t]
              /\ decisions'[t] = decisions[t]
              /\ action_approval_event'[t] = action_approval_event[t]
              /\ status'[t] = status[t]
         /\ (resp'.op = "approve" /\ resp'.success) => status'[t] = "running"]_vars

\* C5 witness: an approve was refused because the task is paused although
\* its PendingAction is still there.
C5_Witness ==
  /\ resp.op = "approve" /\ ~resp.success
  /\ resp.message = "Task is in 'paused' state and cannot be approved"
  /\ pending_approval[resp.task]

\* C6: after a reject has succeeded on the current PendingAction, none of
\* the batch's actions is executed, and once the gate has released the task
\* is paused exactly when the engine is paused (status and engine agree).
C6_RejectHaltsAndPauses ==
  \A t \in TaskIds :
    "rejected" \in Range(decisions[t]) =>
      /\ executed[t] = <<>>
      /\ (released[t] # "none" /\ status[t] \in {"running", "paused"}) =>
           (status[t] = "paused" <=> engine_paused[t])

\* The result list wrapped_multi_act builds from the primitive's outcomes:
\* one result per executed action, in order, nothing for an empty list.
ResultsOf(outs) ==
  SelectSeq([i \in 1..Len(outs) |-> [action |-> i - 1, outcome |-> outs[i]]],
            LAMBDA r : r.outcome # "empty")

\* C7: a batch of N >= 1 actions publishes one PendingAction and waits at
\* the gate once; after approval the primitive is invoked on the actions one
\* at a time in their order with no further PendingAction, no action follows
\* a done or error result, and the returned list holds exactly the results
\* of the executed prefix, which is the whole batch unless a done or error
\* result ended it.
C7_BatchApprovedOnce ==
  \A t \in TaskIds :
    /\ published[t] <= 1
    /\ (pc[t] \in {"gate", "exec"} \/ released[t] # "none") => published[t] = 1
    /\ Len(executed[t]) <= actions[t]
    /\ \A i \in 1..Len(executed[t]) : executed[t][i] = i - 1
    /\ Len(executed[t]) - Len(outcomes[t]) \in {0, 1}
    /\ pc[t] = "exec" => Len(executed[t]) = Len(outcomes[t]) + 1
    /\ \A i \in 1..Len(outcomes[t]) :
         outcomes[t][i] \in {"done", "error"} => i = Len(executed[t])
    /\ (released[t] = "approved" /\ returned[t] # <<>>) =>
         /\ Len(outcomes[t]) = Len(executed[t])
         /\ returned[t][1] = ResultsOf(outcomes[t])
         /\ \/ Len(executed[t]) = actions[t]
            \/ Last(outcomes[t]) \in {"done", "error"}

\* C7 witness: an approved batch of 3 has returned after its second action
\* reported done.
C7_Witness ==
  \E t \in TaskIds :
    /\ actions[t] = 3 /\ released[t] = "approved"
    /\ outcomes[t] = <<"ok", "done">>
    /\ returned[t] # <<>> /\ Len(returned[t][1]) = 2

\* C8 (as claimed, Policy A): in a batch of 3 every executed action had a
\* PendingAction of its own, so that action 2 can be rejected after action 1
\* has run and actions 2 and 3 then never run.
C8_PolicyAScenario ==
  \A t \in TaskIds : actions[t] = 3 => Len(executed[t]) <= published[t]

\* C8 (amended, Policy B): for a batch of 3 one PendingAction (1 of 3) is
\* published; a successful reject sets the status to paused; when the gate
\* releases rejected none of the 3 actions is executed; when it releases
\* approved action 1 is executed and the others follow with no further
\* PendingAction.
C8_PolicyBScenario ==
  \A t \in TaskIds :
    actions[t] = 3 =>
      /\ published[t] <= 1
      /\ pending_approval[t] =>
           (current_actions[t].index = 1 /\ current_actions[t].total = 3)
      /\ released[t] = "rejected" => executed[t] = <<>>
      /\ released[t] = "approved" =>
           (Len(executed[t]) >= 1 /\ published[t] = 1)
      /\ (resp.op = "reject" /\ resp.task = t /\ resp.success) =>
           status[t] = "paused"

\* C8 witness: a rejected batch of 3 has left the gate with nothing executed
\* and the task paused.
C8_Witness ==
  \E t \in TaskIds :
    /\ actions[t] = 3 /\ released[t] = "rejected" /\ executed[t] = <<>>
    /\ status[t] = "paused" /\ engine_paused[t]

\* C9: completed, failed and stopped are absorbing, and the status never
\* moves back to an earlier stage (running and paused being one stage);
\* stated for a task whose background run has begun, where the events are
\* engine return, engine exception, timeout and the control calls.
C9_TerminalAbsorbing ==
  [][\A t \in TaskIds :
       pc[t] \notin {"absent", "scheduled"} =>
         /\ status[t] \in Terminal => status'[t] = status[t]
         /\ Rank(status'[t]) >= Rank(status[t])]_vars

\* C10: a stop call answers with the task's status, which is then terminal,
\* and once a stop has answered stopped while the background run was in
\* flight every later stop on the task answers stopped.
C10_StopIdempotent ==
  (resp.op = "stop" /\ resp.code = 200) =>
     /\ resp.status = status[resp.task]
     /\ resp.status \in Terminal
     /\ stopped_in_flight[resp.task] => resp.status = "stopped"

\* C11: a stop call that succeeds while the run is suspended at the approval
\* gate unblocks the wait: when the call has answered, the event the waiter
\* is parked on is set.
C11_StopReleasesGate ==
  (resp.op = "stop" /\ resp.message = "Task stopped successfully."
     /\ pc[resp.task] = "gate") =>
       action_approval_event[resp.task]

\* C12: a run that does not leave agent.run() on its own is ended by the
\* task-level timeout, the status is then failed for good, and no task stays
\* in status running forever.
C12_NoRunForever ==
  /\ \A t \in SoloIds : InFlight(t) ~> pc[t] = "finished"
  /\ [](\A t \in SoloIds : ended[t].how = "timeout" => status[t] = "failed")
  /\ \A t \in SoloIds : <>[](status[t] # "running")

\* A run was cancelled by the timeout while it was parked at the gate.
C12_Witness ==
  \E t \in SoloIds :
    /\ ended[t].how = "timeout"
    /\ pending_approval[t] /\ ~action_approval_event[t]
    /\ status[t] = "failed"

\* The events with which _run_agent_task records an exception of the engine.
EngineErrorEvents ==
  {Event("error", "Task execution failed: " \o m) : m \in EngineErrors}

\* C13: a run ended by the timeout is recorded with an event that is
\* specific to timeouts: it is none of the events that record an engine
\* execution error.
C13_TimeoutTagged ==
  \A t \in TaskIds :
    ended[t].how = "timeout" => Last(events[t]) \notin EngineErrorEvents

\* Everything the program holds for task t: its registry entry, the fields
\* of its BrowserAgent and the position of its background run.
TaskState(t) ==
  <<t \in active_tasks, status[t], events[t], agent[t], current_agent[t],
    pending_approval[t], approved[t], rejected[t], action_approval_event[t],
    current_actions[t], current_batch_next_goal[t], current_model_output[t],
    current_step_data[t], engine_paused[t], pc[t], n_steps[t], actions[t], idx[t], results[t],
    planner_thoughts[t], latest_plan[t], planner_updated[t]>>

\* This step is a resume call on the registered task t.
ResumeCall(t) == resp'.op = "resume" /\ resp'.task = t /\ t \in active_tasks

\* What C14 says of status changes: a successful reject is one move from
\* running to paused, paused is entered in no other way, and paused is left
\* for running only by a resume call.
PauseResumeMoves(t) ==
  /\ (resp'.op = "reject" /\ resp'.task = t /\ resp'.success) =>
        status[t] = "running" /\ status'[t] = "paused"
  /\ (status[t] # "paused" /\ status'[t] = "paused") =>
        resp'.op = "reject" /\ resp'.task = t /\ resp'.success
  /\ (status[t] = "paused" /\ status'[t] = "running") => ResumeCall(t)

\* A resume call on a task that is not paused changes nothing and says why.
RefusedResume(t) ==
  /\ TaskState(t)' = TaskState(t)
  /\ resp'.code = 200 /\ resp'.status = status[t] /\ resp'.message # ""
  /\ resp'.message # "Task resumed successfully"

\* C14 as stated: a resume call on a paused task signals the engine to
\* resume and sets the status to running; on any other task it changes
\* nothing and says why; status moves as in PauseResumeMoves.
C14_ResumeWhenPaused ==
  [][\A t \in TaskIds :
       /\ ResumeCall(t) =>
            IF status[t] = "paused"
              THEN status'[t] = "running" /\ ~engine_paused'[t]
              ELSE RefusedResume(t)
       /\ PauseResumeMoves(t)]_vars

\* C14 amended: a resume call on a paused task whose engine exists signals
\* the engine to resume and sets the status to running, changing that one
\* transition only; on a paused task whose engine is gone it changes nothing
\* and is not answered as a success; on any other task it changes nothing
\* and says why; status moves as in PauseResumeMoves.
C14_ResumeWhenPausedWithEngine ==
  [][\A t \in TaskIds :
       /\ ResumeCall(t) =>
            IF status[t] = "paused" /\ agent[t] = "Agent"
              THEN /\ status'[t] = "running" /\ ~engine_paused'[t]
                   /\ resp'.status = "running"
            ELSE IF status[t] = "paused"
              THEN /\ TaskState(t)' = TaskState(t)
                   /\ resp'.message # "Task resumed successfully"
            ELSE RefusedResume(t)
       /\ PauseResumeMoves(t)]_vars

\* A rejection paused the task, a resume set it running again, and a second
\* resume has just been refused.
C14_Witness ==
  \E t \in SoloIds :
    /\ resp.op = "resume" /\ resp.task = t
    /\ resp.message = "Task is in 'running' state and cannot be resumed"
    /\ \E i \in 1..Len(events[t]) :
         events[t][i] = Event("user_action", "User resumed the task")

\* C15: a resume call on a paused task whose engine instance is absent is
\* answered with an ordinary response that reports the failure (no error
\* raised out of the handler), and the status stays paused.
C15_ResumeFailsStructured ==
  (resp.op = "resume" /\ resp.task \in active_tasks
     /\ resp.message # "Task resumed successfully") =>
       /\ resp.code = 200
       /\ resp.status = status[resp.task]

\* C16: the background start sets the status to running; a normal return of
\* the run sets completed if the status is still running and otherwise
\* leaves status and event log as they are; an exception leaving the run
\* sets failed and appends exactly one error event carrying its message.
C16_OutcomeFixesStatus ==
  [][\A t \in TaskIds :
       /\ (pc[t] = "scheduled" /\ pc'[t] = "engine") => status'[t] = "running"
       /\ (ended[t].how = "none" /\ ended'[t].how = "returned") =>
            IF status[t] = "running"
              THEN status'[t] = "completed"
              ELSE status'[t] = status[t] /\ events'[t] = events[t]
       /\ (ended[t].how = "none" /\ ended'[t].how \in {"raised", "startup", "timeout"}) =>
            /\ status'[t] = "failed"
            /\ events'[t] = Append(events[t],
                  Event("error", "Task execution failed: " \o ended'[t].msg))]_vars

\* The run has returned normally after a stop or a rejection had moved the
\* status away from running.
C16_Witness ==
  \E t \in SoloIds :
    ended[t].how = "returned" /\ status[t] \in {"stopped", "paused"}

\* This step is the create call that registered task t.
CreateCall(t) == resp'.op = "create" /\ resp'.task = t

\* What create_task does at once: the entry exists with status created and
\* an empty event log, the response says created, no engine exists yet.
CreatedNotStarted(t) ==
  /\ t \notin active_tasks /\ t \in active_tasks'
  /\ status'[t] = "created" /\ resp'.status = "created"
  /\ events'[t] = <<>> /\ agent'[t] = "None"

\* C17 as stated: create returns the new id with status created and starts
\* nothing; the task stays created and its run begins only in a step that is
\* a start call on the task.
C17_RunNeedsStart ==
  [][\A t \in TaskIds :
       /\ CreateCall(t) => CreatedNotStarted(t)
       /\ (status[t] = "created" /\ status'[t] # "created") =>
            resp'.op \in {"start", "stop"} /\ resp'.task = t
       /\ (pc[t] \in {"absent", "scheduled"} /\ InFlight(t)') =>
            resp'.op = "start" /\ resp'.task = t]_vars

\* C17 amended: create returns the new id with status created and itself
\* schedules the background run; the status is created exactly while that
\* run (or a stop) has not yet acted, and the run begins in a step of its
\* own that is no call of the control surface, setting running or failed.
C17_CreateSchedulesRun ==
  [][\A t \in TaskIds :
       /\ CreateCall(t) => CreatedNotStarted(t) /\ pc'[t] = "scheduled"
       /\ status[t] = "created" => pc[t] = "scheduled"
       /\ (status[t] = "created" /\ status'[t] # "created") =>
            \/ resp'.op = "stop" /\ resp'.task = t
            \/ resp' = NoResp /\ status'[t] \in {"running", "failed"}
       /\ (pc[t] = "scheduled" /\ pc'[t] # "scheduled") =>
            resp' = NoResp /\ status'[t] \in {"running", "failed"}]_vars

\* The scheduled run has begun, no call having been made since create.
C17_Witness ==
  \E t \in SoloIds :
    /\ pc[t] = "engine" /\ status[t] = "running"
    /\ n_steps[t] = 0 /\ events[t] = <<>>

\* The operations of the control surface that take the id of an existing task.
ControlOps == {"get_status", "get_action", "approve", "reject", "resume", "stop"}

\* C18: a control or query operation called with an id that is not in the
\* registry signals not-found, adds no entry to the registry and changes
\* nothing of any task.
C18_UnknownIdNotFound ==
  [][(resp'.op \in ControlOps /\ resp'.task \notin active_tasks) =>
       /\ resp'.code = 404 /\ ~resp'.success
       /\ active_tasks' = active_tasks
       /\ \A t \in TaskIds : TaskState(t)' = TaskState(t)]_vars

\* An approve with an unknown id was answered not-found while another task
\* was waiting at its gate.
C18_Witness ==
  /\ resp.op = "approve" /\ resp.code = 404 /\ resp.task \notin active_tasks
  /\ \E t \in active_tasks : pc[t] = "gate" /\ pending_approval[t]

\* C19: every step changes the state of at most one task, a call changes
\* only the task it names, and a query answers with the named task's own
\* status, event log and pending action.
C19_TasksIsolated ==
  [][/\ \E a \in TaskIds : \A b \in TaskIds \ {a} : TaskState(b)' = TaskState(b)
     /\ resp'.op # "none" =>
          \A b \in TaskIds \ {resp'.task} : TaskState(b)' = TaskState(b)
     /\ (resp'.op = "get_status" /\ resp'.code = 200) =>
          /\ resp'.status = status[resp'.task]
          /\ resp'.events = events[resp'.task]
     /\ (resp'.op = "get_action" /\ resp'.code = 200) =>
          resp'.action = get_current_step(resp'.task)]_vars

\* One task has failed by timeout with its event in its own log while the
\* other, untouched, still waits at its gate with an empty log, and a status
\* query on the waiting task has just been answered.
C19_Witness ==
  \E a, b \in TaskIds :
    /\ a # b
    /\ ended[a].how = "timeout" /\ status[a] = "failed" /\ Len(events[a]) = 1
    /\ pc[b] = "gate" /\ pending_approval[b] /\ status[b] = "running"
    /\ resp.op = "get_status" /\ resp.task = b /\ resp.events = <<>>

IsPrefix(p, q) == Len(p) <= Len(q) /\ SubSeq(q, 1, Len(p)) = p

\* C20: the event log and the plan log of a task only grow at the end:
\* across every step the old value is a prefix of the new one, hence every
\* value seen earlier is a prefix of every value seen later.
C20_LogsAppendOnly ==
  [][\A t \in TaskIds :
       /\ IsPrefix(events[t], events'[t])
       /\ IsPrefix(planner_thoughts[t], planner_thoughts'[t])]_vars

\* Both logs have grown twice.
C20_Witness ==
  \E t \in SoloIds :
    /\ Len(events[t]) >= 2
    /\ Len(planner_thoughts[t]) = 2
    /\ planner_thoughts[t][1] # planner_thoughts[t][2]

\* The read-side operations, and what they must leave alone: everything of
\* the task but its planner_updated flag.
QueryOps == {"get_status", "get_status_only", "get_step", "get_action",
             "get_planner_thoughts"}
ReadFrame(t) == SubSeq(TaskState(t), 1, Len(TaskState(t)) - 1)

\* C21: the queries can always be called on a registered task, they change
\* nothing of any task, mark-plan-seen changes nothing but the seen flag,
\* and the seen flag is reset by no step other than mark-plan-seen.
C21_QueriesArePureReads ==
  /\ [](\A t \in active_tasks :
          /\ ENABLED GetStatus(t) /\ ENABLED GetStatusOnly(t)
          /\ ENABLED GetStep(t) /\ ENABLED GetAction(t)
          /\ ENABLED GetPlannerThoughts(t)
          /\ ENABLED MarkPlannerThoughtsSeen(t))
  /\ [][/\ resp'.op \in QueryOps =>
            \A t \in TaskIds : TaskState(t)' = TaskState(t)
        /\ resp'.op = "mark_planner_thoughts_seen" =>
            /\ \A t \in TaskIds : ReadFrame(t)' = ReadFrame(t)
            /\ \A t \in TaskIds \ {resp'.task} : TaskState(t)' = TaskState(t)
        /\ \A t \in TaskIds :
             (planner_updated[t] /\ ~planner_updated'[t]) =>
                resp'.op = "mark_planner_thoughts_seen" /\ resp'.task = t]_vars

\* A plan-log query has answered, with a PendingAction published, an
\* undecided gate and an unseen plan, all of which are still there.
C21_Witness ==
  \E t \in SoloIds :
    /\ resp.op = "get_planner_thoughts" /\ resp.task = t
    /\ resp.has_thoughts /\ resp.updated_since_last_fetch = "True"
    /\ planner_updated[t]
    /\ pc[t] = "gate" /\ pending_approval[t] /\ ~action_approval_event[t]

\* C22: the events the agent emits are in the task's event log: while the
\* PendingAction of the current batch is published, the log holds the
\* action_approval_needed event emitted with it.
C22_AgentEventsLogged ==
  \A t \in active_tasks :
    published[t] > 0 =>
      \E i \in 1..Len(events[t]) : events[t][i].type = "action_approval_needed"

\* C23: n direct calls of _handle_event on an object built with a plain
\* function as callback leave exactly those n events, in call order, in the
\* callback's record; on an object built without a callback they leave
\* nothing.
C23_HandleEventDelivers ==
  \A t \in TaskIds :
    /\ on_event[t] = "sync" =>
         /\ Len(events[t]) = Len(HandledCalls(t))
         /\ \A i \in 1..Len(events[t]) : events[t][i] = HandledCalls(t)[i].arg
    /\ on_event[t] = "none" => events[t] = <<>>

\* Three events were handed over, not all the same, and recorded.
C23_Witness ==
  \E t \in TaskIds :
    /\ on_event[t] = "sync"
    /\ Len(HandledCalls(t)) = 3 /\ Len(events[t]) = 3
    /\ events[t][1] # events[t][2]

\* A BrowserAgent exists for t and its run has not begun.
BeforeStart(t) == on_event[t] # "unbuilt" /\ pc[t] \in {"absent", "scheduled"}

\* C24: a BrowserAgent that has been constructed and not started holds the
\* description it was given, has no engine, is not paused and has nothing
\* pending; a query for the pending action answers none, and approve and
\* reject answer failure and change nothing.
C24_FreshAgent ==
  /\ [](\A t \in TaskIds :
          BeforeStart(t) =>
            /\ description[t] = calls[t][1].arg
            /\ agent[t] = "None"
            /\ ~engine_paused[t]
            /\ ~pending_approval[t] /\ ~approved[t] /\ ~rejected[t]
            /\ get_current_step(t) = NoAction)
  /\ [][\A t \in TaskIds :
          (BeforeStart(t) /\ resp'.task = t) =>
            /\ resp'.op \in {"approve_action", "reject_action"} =>
                 ~resp'.success /\ TaskState(t)' = TaskState(t)
            /\ resp'.op = "get_current_step" =>
                 ~resp'.pending /\ resp'.action = NoAction]_vars

\* An agent was built with the second description, and an approve on it has
\* just answered failure.
C24_Witness ==
  \E t \in TaskIds :
    /\ BeforeStart(t) /\ description[t] = "d2"
    /\ resp.op = "approve_action" /\ resp.task = t /\ ~resp.success

\* str(e) of the ValueError start() raises when no credential profile is set.
NoCredentialsMessage ==
  "Either OPENAI_API_KEY or (AZURE_ENDPOINT and AZURE_OPENAI_API_KEY) environment variables are required"

\* C25: a missing credential profile makes create fail: a task whose start
\* has met the configuration error is not in the registry.
C25_ConfigErrorAtCreate ==
  \A t \in TaskIds :
    (ended[t].how = "startup" /\ ended[t].msg = NoCredentialsMessage) =>
       t \notin active_tasks

\* C26: once wrapped_multi_act has returned for a batch, no PendingAction
\* remains and the stored next goal and model output are cleared.
C26_BatchResolvedClears ==
  \A t \in TaskIds :
    returned[t] # <<>> =>
      /\ ~pending_approval[t]
      /\ get_current_step(t) = NoAction
      /\ current_batch_next_goal[t] = 0
      /\ current_model_output[t] = 0

\* This step is original_multi_act raising on the action being executed.
RaiseStep(t) == outcomes'[t] = Append(outcomes[t], "raise")

\* C27 as stated: when the primitive raises on an action of an approved
\* batch, no further action is executed and the run ends there, the task
\* being failed with an error event.
C27_RaiseFailsTask ==
  [][\A t \in TaskIds :
       RaiseStep(t) =>
         /\ executed'[t] = executed[t]
         /\ pc'[t] = "finished" /\ status'[t] = "failed"
         /\ Last(events'[t]).type = "error"]_vars

\* C27 amended: when the primitive raises on an action of an approved batch
\* the exception leaves the interceptor into the engine: the interceptor
\* returns nothing and no further action of the batch is ever executed; if
\* the engine lets the exception leave its run, the task is failed with one
\* error event carrying the message, otherwise status and log are as before.
C27_RaiseLeavesInterceptor ==
  [][\A t \in TaskIds :
       /\ RaiseStep(t) =>
            /\ executed'[t] = executed[t] /\ results'[t] = results[t]
            /\ returned'[t] = <<>>
            /\ pc'[t] \in {"engine", "finished"}
            /\ pc'[t] = "finished" =>
                 /\ status'[t] = "failed"
                 /\ events'[t] = Append(events[t],
                       Event("error", "Task execution failed: action failed"))
            /\ pc'[t] = "engine" =>
                 status'[t] = status[t] /\ events'[t] = events[t]
       /\ "raise" \in Range(outcomes[t]) =>
            executed'[t] = executed[t] \/ outcomes'[t] = <<>>]_vars

\* The second action of an approved batch of three raised: the third was
\* not executed and the task is failed.
C27_Witness ==
  \E t \in SoloIds :
    /\ actions[t] = 3 /\ executed[t] = <<0, 1>>
    /\ Last(outcomes[t]) = "raise"
    /\ pc[t] = "finished" /\ status[t] = "failed"

\* This step is the gate waiter of t waking up.
WakeStep(t) == pc[t] = "gate" /\ pc'[t] \in {"exec", "engine"}

\* C28: when a PendingAction has been published and no call has been
\* accepted for it, the decision is unset and the gate signal is clear; the
\* waiter is released only by a call accepted for the PendingAction it
\* waits on, and what it then reads is the decision of the last such call.
C28_DecisionIsPerPendingAction ==
  /\ [](\A t \in TaskIds :
          (pc[t] = "gate" /\ decisions[t] = <<>>) =>
             /\ pending_approval[t]
             /\ ~approved[t] /\ ~rejected[t] /\ ~action_approval_event[t])
  /\ [][\A t \in TaskIds :
          WakeStep(t) =>
            /\ decisions[t] # <<>>
            /\ released'[t] = Last(decisions[t])]_vars

\* The second PendingAction of a run is published and undecided, the first
\* one having been approved.
C28_Witness ==
  \E t \in SoloIds :
    /\ n_steps[t] = 2 /\ pc[t] = "gate" /\ decisions[t] = <<>>
    /\ \E i \in 1..Len(events[t]) :
         events[t][i] = Event("user_action", "User approved the action")

\* Paused is entered only by a successful reject on a running task.
PausedEnteredByReject(t) ==
  (status[t] # "paused" /\ status'[t] = "paused") =>
     /\ status[t] = "running"
     /\ resp'.op = "reject" /\ resp'.task = t /\ resp'.success

\* C29 as stated: paused is entered only by a successful reject on a
\* running task, and every step that moves a task out of paused is a
\* successful resume.
C29_PausedLeftOnlyByResume ==
  [][\A t \in TaskIds :
       /\ PausedEnteredByReject(t)
       /\ (status[t] = "paused" /\ status'[t] # "paused") =>
            /\ status'[t] = "running"
            /\ resp'.op = "resume" /\ resp'.task = t]_vars

\* C29 amended: paused is entered only by a successful reject on a running
\* task; it is left for running only by a successful resume, for stopped
\* only by a stop call, which a paused task always obeys, and for failed
\* only by the timeout or an exception ending the run; a run that returns
\* normally leaves a paused task paused.
C29_PausedLeftByResumeStopOrFailure ==
  [][\A t \in TaskIds :
       /\ PausedEnteredByReject(t)
       /\ (status[t] = "paused" /\ status'[t] # "paused") =>
            \/ /\ status'[t] = "running"
               /\ resp'.op = "resume" /\ resp'.task = t
            \/ /\ status'[t] = "stopped"
               /\ resp'.op = "stop" /\ resp'.task = t
            \/ /\ status'[t] = "failed"
               /\ ended[t].how = "none"
               /\ ended'[t].how \in {"raised", "timeout"}
       /\ (status[t] = "paused" /\ resp'.op = "stop" /\ resp'.task = t) =>
            status'[t] = "stopped"
       /\ (status[t] = "paused" /\ ended[t].how = "none"
              /\ ended'[t].how = "returned") => status'[t] = "paused"]_vars

\* A paused task has been moved to failed by the timeout.
C29_Witness ==
  \E t \in SoloIds :
    /\ status[t] = "failed" /\ ended[t].how = "timeout"
    /\ Len(events[t]) >= 2
    /\ events[t][Len(events[t]) - 1] =
          Event("user_action", "User rejected the action, agent paused")

\* C30: once an approve or reject has been accepted for the PendingAction
\* last published, a get-pending-action reports none (until the next
\* publication, which starts a new record of accepted calls).
C30_HiddenOnceDecided ==
  (resp.op = "get_action" /\ resp.code = 200
     /\ decisions[resp.task] # <<>>) =>
       ~resp.pending /\ resp.action = NoAction

\* This step appends a snapshot to the plan log of t.
PlanStep(t) == planner_thoughts'[t] # planner_thoughts[t]

\* C31: every snapshot the planning hook produces is appended at the end of
\* the plan log, is the latest snapshot (latest is the last element of a
\* non-empty log, and changes with the log only), sets the unseen flag and
\* is announced by one planner_updated event handed to _handle_event; the
\* flag then stays set until mark-plan-seen resets it, and reading the plan
\* log leaves it as it is.
C31_SnapshotAppendedAndUnseen ==
  /\ [](\A t \in TaskIds :
          IF planner_thoughts[t] = <<>>
            THEN latest_plan[t] = "None" /\ ~planner_updated[t]
            ELSE latest_plan[t] = Last(planner_thoughts[t]))
  /\ [][\A t \in TaskIds :
          /\ PlanStep(t) =>
               /\ planner_thoughts'[t] # <<>>
               /\ planner_thoughts'[t] =
                    Append(planner_thoughts[t], Last(planner_thoughts'[t]))
               /\ Last(planner_thoughts'[t]).content =
                    PlanContent(structured_plan')
               /\ latest_plan'[t] = Last(planner_thoughts'[t])
               /\ planner_updated'[t]
               /\ HandledCalls(t)' =
                    Append(HandledCalls(t),
                           [op |-> "_handle_event",
                            arg |-> Event("planner_updated",
                                          "Planner has generated new thoughts")])
          /\ ~PlanStep(t) =>
               /\ latest_plan'[t] = latest_plan[t]
               /\ HandledCalls(t)' = HandledCalls(t)
          /\ (planner_updated[t] /\ ~planner_updated'[t]) =>
               resp'.op = "mark_planner_thoughts_seen" /\ resp'.task = t
          /\ (resp'.op = "mark_planner_thoughts_seen" /\ resp'.task = t) =>
               ~planner_updated'[t]
          /\ (resp'.op = "get_planner_thoughts" /\ resp'.task = t) =>
               /\ planner_updated'[t] = planner_updated[t]
               /\ resp'.all_thoughts = planner_thoughts[t]
               /\ resp'.has_thoughts =>
                    resp'.updated_since_last_fetch =
                       (IF planner_updated[t] THEN "True" ELSE "False")]_vars

\* Two snapshots were produced and announced, and a read of the plan log
\* has answered both with the flag still set.
C31_Witness ==
  \E t \in SoloIds :
    /\ Len(planner_thoughts[t]) = 2 /\ Len(HandledCalls(t)) = 2
    /\ latest_plan[t] = planner_thoughts[t][2]
    /\ resp.op = "get_planner_thoughts" /\ resp.task = t
    /\ resp.updated_since_last_fetch = "True" /\ planner_updated[t]
    /\ Len(resp.all_thoughts) = 2

\* C32: a task that has entered a registry is still in it after its run
\* has ended, whatever the outcome: no step removes a task from the registry
\* of routes.py, and the step that finishes the run_task of a task of
\* app.py, once the outcome is reported, leaves the task in the registry.
C32_StaysAfterRunEnds ==
  [][/\ \A t \in TaskIds : t \in active_tasks => t \in active_tasks'
     /\ \A u \in Uuids :
          (app_run[u] = "reporting" /\ app_run'[u] = "ended"
             /\ app_active_tasks[u] # NoEntry) =>
                app_active_tasks'[u] # NoEntry]_vars

\* C33: the id a create allocates is not a key of the registry at that
\* moment, so a create leaves every entry that exists as it is (routes.py:
\* create; app.py: POST /tasks and the websocket's start_task).
C33_CreateAllocatesFreshId ==
  [][/\ (resp'.op = "create" /\ resp'.code = 201) =>
          resp'.task \notin active_tasks
     /\ (\/ resp'.op = "app_create_task"
         \/ resp'.op = "ws_start_task" /\ resp'.message = "") =>
          /\ app_active_tasks[resp'.task] = NoEntry
          /\ \A i \in AppKeys : app_active_tasks'[i] = app_active_tasks[i]]_vars

\* The selection C34 describes, with "set" read as os.getenv being truthy.
ProfileOf ==
  IF environ["AZURE_ENDPOINT"] = "v" /\ environ["AZURE_OPENAI_API_KEY"] = "v"
    THEN "AzureChatOpenAI"
  ELSE IF environ["OPENAI_API_KEY"] = "v" THEN "ChatOpenAI"
  ELSE "ValueError"

\* C34: the agent selects the Azure client exactly when both Azure
\* variables are set, else the OpenAI client exactly when OPENAI_API_KEY is
\* set, else raises the error that names the variables; and the start-up
\* check and the CLI accept exactly the environments the agent accepts.
C34_OneSelectionEverywhere ==
  /\ resp.op = "start" =>
       /\ llm = ProfileOf
       /\ resp.success <=> (ProfileOf # "ValueError")
       /\ ~resp.success => resp.message = NoCredentialsMessage
  /\ resp.op = "check_env_vars" => (resp.success <=> (ProfileOf # "ValueError"))
  /\ resp.op = "cli_run" =>
       /\ (resp.message # CliRefusal) <=> (ProfileOf # "ValueError")
       /\ (resp.message # CliRefusal) => llm = ProfileOf

\* The tokens that are section headers, and the ordinary words.
HeaderTokens ==
  {tok \in PlanTokens : \E key \in PlanKeys : Lower(tok) \in Headers(key)}
BodyWords == PlanTokens \ (Markers \cup HeaderTokens)

\* The text is the 'next steps' header followed by numbered items, each a
\* marker and at least one ordinary word.
IsNumberedPlan(toks) ==
  /\ Len(toks) >= 3
  /\ Lower(toks[1]) = "next steps:" /\ toks[2] \in Markers
  /\ toks[Len(toks)] \in BodyWords
  /\ \A i \in 2..Len(toks) : toks[i] \in Markers \cup BodyWords
  /\ \A i \in 2..(Len(toks) - 1) :
       toks[i] \in Markers => toks[i + 1] \in BodyWords

\* The item texts of numbered items: the words behind each marker.
RECURSIVE ItemTexts(_, _)
ItemTexts(toks, item) ==
  IF toks = <<>> THEN (IF item = <<>> THEN <<>> ELSE <<Joined(item)>>)
  ELSE IF Head(toks) \in Markers
    THEN (IF item = <<>> THEN <<>> ELSE <<Joined(item)>>)
           \o ItemTexts(Tail(toks), <<>>)
  ELSE ItemTexts(Tail(toks), Append(item, Head(toks)))

\* C35: a plan text made of the 'next steps' header and k numbered items
\* parses to next_steps being the k item texts in order; "Next Steps: 1. a
\* 2. b" parses to <<"a", "b">>.
C35_NumberedStepsParsed ==
  (structured_plan.parsed /\ IsNumberedPlan(text)) =>
     structured_plan.next_steps = ItemTexts(Tail(text), <<>>)

\* No section header occurs twice in the text.
NoHeaderTwice(toks) ==
  \A i, j \in 1..Len(toks) :
    (i # j /\ toks[i] \in HeaderTokens) => Lower(toks[i]) # Lower(toks[j])

\* What lies between the header of key and the next section header, or the
\* end of the text.
ExpectedBody(key, toks) ==
  LET heads == {i \in 1..Len(toks) : Lower(toks[i]) \in Headers(key)}
      h == Least(heads)
      ends == {j \in (h + 1)..Len(toks) : toks[j] \in HeaderTokens}
  IN IF heads = {} THEN <<>>
     ELSE SubSeq(toks, h + 1,
                 (IF ends = {} THEN Len(toks) + 1 ELSE Least(ends)) - 1)

\* C36: in a parsed text (no header repeated) the content of a section
\* that is not empty is what lies between its header and the next section
\* header or the end of the text, ordinary words included, in whatever
\* order the sections come.
C36_SectionRunsToNextHeader ==
  (structured_plan.parsed /\ NoHeaderTwice(text)) =>
     \A key \in {"challenges", "reasoning"} :
        ExpectedBody(key, text) # <<>> =>
           structured_plan[key] = Joined(ExpectedBody(key, text))

\* C37: the status and the engine's pause flag agree: an engine that was
\* paused because of a rejection and has not been resumed belongs to a task
\* whose status is paused (or terminal, once the task was stopped or its run
\* ended); in particular no task is running with no PendingAction and a
\* paused engine, where approve, reject and resume are all refused.
C37_StatusAgreesWithEngine ==
  \A t \in TaskIds :
    engine_paused[t] => status[t] \in {"paused"} \cup Terminal

\* C38: a task whose status is completed, failed or stopped has no
\* PendingAction: pending_approval is false and get-pending-action answers
\* none, however the run came to its end.
C38_TerminalHasNoPending ==
  /\ \A t \in TaskIds :
       status[t] \in Terminal =>
          ~pending_approval[t] /\ get_current_step(t) = NoAction
  /\ (resp.op = "get_action" /\ resp.code = 200
        /\ status[resp.task] \in Terminal) => ~resp.pending

\* C39: once a stop call has set the status to stopped, the primitive is
\* invoked for no further action of the task: the record of the actions
\* handed to original_multi_act does not grow.
C39_NothingRunsAfterStop ==
  [][\A t \in TaskIds :
       status[t] = "stopped" => Len(executed'[t]) <= Len(executed[t])]_vars

\* C40: when an approve has been accepted for the PendingAction the waiter
\* waits on, the waiter wakes with the decision approved and hands the
\* first action of the batch to the primitive, whatever calls arrive
\* between the approve and the wake-up.
C40_ApprovedStaysApproved ==
  [][\A t \in TaskIds :
       (WakeStep(t) /\ "approved" \in Range(decisions[t])) =>
          /\ released'[t] = "approved"
          /\ pc'[t] = "exec" /\ executed'[t] = <<0>>]_vars

====
